---- MODULE Spec2Model ----
(***************************************************************************)
(* Model of the java-modernizator remote-execution core:                   *)
(*   - StackspotApiClient (infrastructure/stackspot_client.py): the poll   *)
(*     loop poll_execution_result and the one-shot get_callback_result;    *)
(*   - ModernizationService (application/modernization_service.py): the    *)
(*     batch loop modernize_all_files / modernize_file, and                *)
(*     ReportGenerator._generate_summary over its results;                 *)
(*   - StackSpotResultProcessor (application/result_processor.py): the     *)
(*     answer parser _parse_json_answer, extract_step_results, the four    *)
(*     process_* mappers and save_structured_results;                      *)
(*   - the writes of the persisted artifacts (save_structured_results,     *)
(*     CallbackStep._save_callback_results, RefactoringStep.execute);      *)
(*   - the blocking remote calls of StackspotApiClient and of              *)
(*     StackSpotWorkflowClient (infrastructure/                            *)
(*     stackspot_workflow_client.py);                                      *)
(*   - RefactoringStep (application/steps/refactoring_step.py): execute    *)
(*     over the listed paths and the output files it writes.               *)
(* Time is an integer clock; one unit stands for one second.               *)
(***************************************************************************)
EXTENDS Integers, Sequences, FiniteSets, TLC

(***************************************************************************)
(* Bounds of the model.                                                    *)
(***************************************************************************)
\* largest timeout argument tried for poll_execution_result
MaxTimeout == 3
\* largest polling_delay argument tried
MaxDelay == 2
\* longest time one requests.get call takes (bounded in the code by its
\* timeout=30 argument)
MaxRequestTime == 2
\* number of get_callback_result calls made on one client instance
MaxFetches == 2
\* largest number of java files the repository holds
MaxFiles == 3
\* number of direct modernize_file calls made before modernize_all_files
MaxDirectCalls == 1
\* longest answer text, in tokens, of which every text is tried
MaxAnswerLen == 4
\* longest structured document, in tokens, put inside a fenced block
MaxDocLen == 3
\* largest number of steps in a loaded callback
MaxSteps == 2
\* number of extract_step_results calls made on a loaded callback
MaxExtractCalls == 2
\* number of persisting functions run one after the other
MaxRuns == 2
\* number of pieces in which the content of a file reaches the disk
MaxChunks == 2
\* longest time, in seconds, a remote call is followed while it waits
MaxWait == 31
\* largest number of lines in main-paths.txt
MaxPaths == 2
\* largest number of poll attempts one submit-then-poll cycle makes
MaxAttempts == 3
\* number of units submitted one after the other
MaxCycles == 2
\* number of generate_summary_report calls on one loaded callback
MaxRenderings == 2
\* seconds that pass on the wall clock while a processor is in use
MaxSeconds == 1
\* ExecutionOrchestrator instances constructed
MaxOrchestrators == 2

VARIABLES
    \* ---- StackspotApiClient instance and the clock ----
    client,            \* self.client is set (SDK available)
    access_token,      \* self.access_token: "none" or a token
    acquisitions,      \* calls of _get_access_token / _get_token_direct so far
    json_error,        \* class raised by response.json() on a non-JSON body
    now,               \* time.time()
    \* ---- one call of poll_execution_result ----
    pc,                \* "idle", "loop" (at the while test), "returned", "raised"
    polling_delay,     \* argument
    timeout,           \* argument
    status_callback,   \* argument: "none" or "observer"
    start_time,        \* local start_time
    attempts,          \* local attempts
    request_time,      \* time the last requests.get took
    history,           \* class of the response of every attempt so far
    last_response,     \* the response of the last attempt
    sent,              \* Authorization tokens sent on requests so far
    callbacks,         \* invocations of status_callback so far
    callback_raised,   \* class raised by the last invocation, or "none"
    result,            \* value returned by poll_execution_result
    error,             \* exception that left poll_execution_result
    \* ---- get_callback_result ----
    fetches,           \* calls made so far
    fetch_code,        \* status code the last call received (0: none)
    fetch_result,      \* value returned by the last call
    \* ---- ModernizationService ----
    bpc,               \* "idle", "running", "done" for modernize_all_files
    direct_calls,      \* direct calls of modernize_file made before the run
    save_changes,      \* argument of modernize_all_files
    total_files,       \* summary['total_files']
    index,             \* files consumed from get_all_java_files so far
    fates,             \* what happened to each file of this run
    run_start,         \* len(self.results) when the run started
    processed,
    successful,
    failed,
    results,           \* self.results
    stats,             \* dict returned by modernize_all_files
    \* ---- StackSpotResultProcessor ----
    answer,            \* argument of the _parse_json_answer calls
    interior,          \* the document the caller fenced into that answer
    parsed,            \* what the last call did: kind, value, exception,
                       \* and the strategies it evaluated
    first_parsed,      \* what the first call on this answer did
    parse_calls,       \* calls of _parse_json_answer made so far
    records,           \* what each process_* mapper did with the payload
    raw_result,        \* self.raw_result
    callback_file,     \* what the file given to load_callback_result held
    load_calls,        \* calls of load_callback_result made so far
    extracted,         \* dict returned by the last extract_step_results
    first_extracted,   \* dict returned by the first one
    extract_calls,     \* calls of extract_step_results made so far
    saving,            \* save_structured_results: artifacts whose write was
                       \* attempted, saved_files, exception that escaped
    failing,           \* the artifacts whose write fails
    save_calls,        \* calls of save_structured_results made so far
    \* ---- the files that hold the persisted artifacts ----
    disk,              \* what each file holds: a version and how much of it
    writer,            \* the function that is persisting, or "none"
    file_index,        \* which of its files it is at
    handle,            \* "open" inside its with open(...) block
    runs,              \* persisting functions started so far
    interrupted,       \* the run was cancelled while persisting
    \* ---- one blocking remote call ----
    in_flight,         \* the call waiting for the remote side, or "none"
    wait_limit,        \* its timeout in seconds, 0 for none
    waited,            \* seconds it has waited so far
    call_outcome,      \* how the last call ended
    \* ---- RefactoringStep ----
    rpc,               \* "idle", "running", "done" for execute
    file_paths,        \* the lines of main-paths.txt
    path_index,        \* files handed to _refactor_file so far
    refactored_files,  \* the list built by execute
    refactored_dir,    \* who wrote each file of results/refactored last
    overwritten,       \* units whose refactored output another unit replaced
    \* ---- one submit-then-poll cycle of a caller ----
    cpc,               \* "idle", "polling", "done"
    cycles,            \* cycles started so far
    execution_id,      \* the caller's local execution_id ("none": unset)
    api_url,           \* the local api_url of poll_execution_result
    submissions,       \* ids create_execution returned in this cycle
    queried,           \* the URL of every requests.get of this cycle
    cycle_history,     \* class of the response of every attempt
    cycle_outcome,     \* how the cycle ended
    \* ---- generate_summary_report ----
    reports,           \* the text of every report rendered so far
    wall_clock,        \* datetime.now(), in seconds
    \* ---- StackSpotWorkflowClient.poll_workflow_result ----
    wpc,               \* "idle", "loop", "returned", "raised"
    workflow_history,  \* the response of every attempt so far
    workflow_error,    \* class of the exception that left the call
    \* ---- ExecutionOrchestrator ----
    opc,               \* "none", "constructed", the step about to run,
                       \* "returned", "raised"
    orchestrators,     \* instances constructed so far
    orch_mode,         \* self.mode
    dev_execution_id,  \* self.dev_execution_id ("none": None)
    orch_result,       \* self.result, the ExecutionResult
    executed           \* the steps executed, with argument and StepResult

poll_vars == <<client, access_token, acquisitions, json_error, now, pc,
               polling_delay, timeout, status_callback, start_time, attempts,
               request_time, history, last_response, sent, callbacks,
               callback_raised, result, error, fetches, fetch_code,
               fetch_result>>

batch_vars == <<bpc, direct_calls, save_changes, total_files, index, fates,
                run_start, processed, successful, failed, results, stats>>

parser_vars == <<answer, interior, parsed, first_parsed, parse_calls,
                 records>>

processor_vars == <<raw_result, callback_file, load_calls, extracted,
                    first_extracted, extract_calls, saving, failing,
                    save_calls>>

disk_vars == <<disk, writer, file_index, handle, runs, interrupted>>

remote_vars == <<in_flight, wait_limit, waited, call_outcome>>

refactor_vars == <<rpc, file_paths, path_index, refactored_files,
                   refactored_dir, overwritten>>

cycle_vars == <<cpc, cycles, execution_id, api_url, submissions, queried,
                cycle_history, cycle_outcome>>

\* the subsystems added after the refactoring step
report_vars == <<reports, wall_clock>>

workflow_vars == <<wpc, workflow_history, workflow_error>>

orch_vars == <<opc, orchestrators, orch_mode, dev_execution_id, orch_result,
               executed>>

later_vars == <<cycle_vars, report_vars, workflow_vars, orch_vars>>

other_vars == <<parser_vars, processor_vars, disk_vars, remote_vars,
                refactor_vars, later_vars>>

outside_parser == <<poll_vars, batch_vars, processor_vars, disk_vars,
                    remote_vars, refactor_vars, later_vars>>

outside_processor == <<poll_vars, batch_vars, parser_vars, disk_vars,
                       remote_vars, refactor_vars, later_vars>>

outside_disk == <<poll_vars, batch_vars, parser_vars, processor_vars,
                  remote_vars, refactor_vars, later_vars>>

outside_remote == <<poll_vars, batch_vars, parser_vars, processor_vars,
                    disk_vars, refactor_vars, later_vars>>

outside_refactor == <<poll_vars, batch_vars, parser_vars, processor_vars,
                      disk_vars, remote_vars, later_vars>>

outside_cycle == <<poll_vars, batch_vars, parser_vars, processor_vars,
                   disk_vars, remote_vars, refactor_vars, report_vars,
                   workflow_vars, orch_vars>>

outside_report == <<poll_vars, batch_vars, parser_vars, processor_vars,
                    disk_vars, remote_vars, refactor_vars, cycle_vars,
                    workflow_vars, orch_vars>>

outside_workflow == <<poll_vars, batch_vars, parser_vars, processor_vars,
                      disk_vars, remote_vars, refactor_vars, cycle_vars,
                      report_vars, orch_vars>>

outside_orch == <<poll_vars, batch_vars, parser_vars, processor_vars,
                  disk_vars, remote_vars, refactor_vars, cycle_vars,
                  report_vars, workflow_vars>>

vars == <<poll_vars, batch_vars, other_vars>>

(***************************************************************************)
(* Exceptions: the classes involved and their base classes.                *)
(***************************************************************************)
ExceptionBase(cls) ==
    CASE cls = "StackspotApiError"        -> "ModernizationError"
      [] cls = "RQCExecutionTimeoutError" -> "ModernizationError"
      [] cls = "ModernizationError"       -> "Exception"
      [] cls = "ConnectionError"          -> "RequestException"
      [] cls = "Timeout"                  -> "RequestException"
      [] cls = "RequestsJSONDecodeError"  -> "RequestException"
      [] cls = "RequestException"         -> "Exception"
      [] cls = "AttributeError"           -> "Exception"
      [] cls = "ValueError"               -> "Exception"
      [] cls = "JSONDecodeError"          -> "ValueError"
      [] cls = "TypeError"                -> "Exception"
      [] cls = "OSError"                  -> "Exception"
      [] cls = "ObserverError"            -> "Exception"
      [] OTHER                            -> "none"

RECURSIVE IsSubclass(_, _)
IsSubclass(cls, base) ==
    IF cls = base THEN TRUE
    ELSE IF ExceptionBase(cls) = "none" THEN FALSE
    ELSE IsSubclass(ExceptionBase(cls), base)

NoError == [type |-> "none", message |-> <<>>]

(***************************************************************************)
(* What one requests.get of the callback URL can produce: an exception of  *)
(* requests, or a response with a status code and a body.  A body is       *)
(* described by its shape as json.loads would see it.                      *)
(***************************************************************************)
Payloads == {"payload_a", "payload_b"}

Resp(exc, code, shape, progress, status, err, payload) ==
    [exception |-> exc, status_code |-> code, shape |-> shape,
     progress |-> progress, status |-> status, error |-> err,
     payload |-> payload]

\* requests.get raised: connection failure or the 30 s timeout
NetworkErrors ==
    {Resp(e, 0, "-", "-", "-", "-", "-") : e \in {"ConnectionError", "Timeout"}}

NotFound == {Resp("none", 404, "-", "-", "-", "-", "-")}

AuthFailures ==
    {Resp("none", c, "-", "-", "-", "-", "-") : c \in {401, 403}}

ServerErrors == {Resp("none", 500, "-", "-", "-", "-", "-")}

\* 200 with an object body whose progress.status is not terminal: a known
\* transient status, an unknown one, no status key, or no progress key
TransientStatuses == {"PENDING", "RUNNING", "QUEUED", "None"}

InProgress ==
    {Resp("none", 200, "object", "object", s, "absent", "-") :
        s \in TransientStatuses}
    \cup {Resp("none", 200, "object", "absent", "None", "absent", "-")}

Completed ==
    {Resp("none", 200, "object", "object", "COMPLETED", "absent", p) :
        p \in Payloads}

RemoteFailures ==
    {Resp("none", 200, "object", "object", s, e, "-") :
        s \in {"FAILED", "CANCELLED"}, e \in {"absent", "boom"}}

\* 200 with a body that is not JSON, is JSON but no object, or whose
\* progress is null
BadBodies ==
    {Resp("none", 200, "not_json", "-", "-", "-", "-"),
     Resp("none", 200, "array", "-", "-", "-", "-"),
     Resp("none", 200, "object", "null", "-", "-", "-")}

Responses ==
    NetworkErrors \cup NotFound \cup AuthFailures \cup ServerErrors
    \cup InProgress \cup Completed \cup RemoteFailures \cup BadBodies

\* the class of a response, as recorded in history
Class(resp) ==
    CASE resp \in NetworkErrors  -> "network_error"
      [] resp \in NotFound       -> "404"
      [] resp \in AuthFailures   -> "auth_failure"
      [] resp \in ServerErrors   -> "server_error"
      [] resp \in InProgress     -> "in_progress"
      [] resp \in Completed      -> "COMPLETED"
      [] resp \in RemoteFailures -> resp.status
      [] OTHER                   -> "bad_body"

\* what the observer does when invoked
ObserverResults == {"ok", "ObserverError", "ConnectionError"}

(***************************************************************************)
(* The body of one iteration of the while loop (lines 122-153), as a       *)
(* function of the response and of what the observer does if it is         *)
(* invoked.  The value tells how the statements inside the try end:        *)
(*   kind "return": return result;  kind "raise": exc raised inside the    *)
(*   try;  kind "fall": the end of the if/elif chain is reached.           *)
(***************************************************************************)
Outcome(kind, exc, message, invoked) ==
    [kind |-> kind, exc |-> exc, message |-> message, invoked |-> invoked]

\* On200 with the observer called before the status is looked at
On200_ObserverFirst(resp, cb, obs, jsonErr) ==
    IF resp.shape = "not_json"
    THEN Outcome("raise", jsonErr, <<"json">>, FALSE)
    ELSE IF resp.shape # "object" \/ resp.progress = "null"
    THEN Outcome("raise", "AttributeError", <<"get">>, FALSE)
    ELSE IF cb # "none" /\ obs # "ok"
    THEN Outcome("raise", obs, <<"observer">>, TRUE)
    ELSE IF resp.status = "COMPLETED"
    THEN Outcome("return", "none", <<>>, cb # "none")
    ELSE IF resp.status \in {"FAILED", "CANCELLED"}
    THEN Outcome("raise", "StackspotApiError",
                 <<"Execution", resp.status,
                   IF resp.error = "absent" THEN "Unknown error"
                   ELSE resp.error>>, cb # "none")
    ELSE Outcome("fall", "none", <<>>, cb # "none")

\* lines 125-144: the branch for status_code == 200
On200(resp, cb, obs, jsonErr) ==
    IF resp.shape = "not_json"
    THEN Outcome("raise", jsonErr, <<"json">>, FALSE)                  \* l.126
    ELSE IF resp.shape # "object"
    THEN Outcome("raise", "AttributeError", <<"get">>, FALSE)          \* l.129
    ELSE IF resp.progress = "null"
    THEN Outcome("raise", "AttributeError", <<"get">>, FALSE)          \* l.130
    ELSE IF resp.status = "COMPLETED"
    THEN Outcome("return", "none", <<>>, FALSE)                        \* l.136
    ELSE IF resp.status \in {"FAILED", "CANCELLED"}
    THEN Outcome("raise", "StackspotApiError",
                 <<"Execution", resp.status,
                   IF resp.error = "absent" THEN "Unknown error"
                   ELSE resp.error>>, FALSE)                            \* l.140
    ELSE IF cb = "none"
    THEN Outcome("fall", "none", <<>>, FALSE)
    ELSE IF obs = "ok"
    THEN Outcome("fall", "none", <<>>, TRUE)                           \* l.144
    ELSE Outcome("raise", obs, <<"observer">>, TRUE)

\* TryBody with a 404 reported as a failure of the API
TryBody_NotFoundRaises(resp, cb, obs, jsonErr) ==
    IF resp.exception # "none"
    THEN Outcome("raise", resp.exception, <<"network">>, FALSE)
    ELSE IF resp.status_code = 200
    THEN On200(resp, cb, obs, jsonErr)
    ELSE IF resp.status_code = 404
    THEN Outcome("raise", "StackspotApiError", <<"not found">>, FALSE)
    ELSE Outcome("fall", "none", <<>>, FALSE)

\* lines 123-150: the statements inside the try
TryBody(resp, cb, obs, jsonErr) ==
    IF resp.exception # "none"
    THEN Outcome("raise", resp.exception, <<"network">>, FALSE)        \* l.123
    ELSE IF resp.status_code = 200
    THEN On200(resp, cb, obs, jsonErr)
    ELSE Outcome("fall", "none", <<>>, FALSE)                          \* l.146-150

\* the try statement without its except clause
Caught_Nothing(exc) == FALSE

\* the try statement with "except Exception"
Caught_Everything(exc) == TRUE

\* line 152: except requests.exceptions.RequestException
Caught(exc) == IsSubclass(exc, "RequestException")

\* lines 122-153: the try statement as a whole
TryStatement(resp, cb, obs, jsonErr) ==
    LET o == TryBody(resp, cb, obs, jsonErr)
    IN IF o.kind = "raise" /\ Caught(o.exc)
       THEN Outcome("fall", "none", <<>>, o.invoked)
       ELSE o

(***************************************************************************)
(* StackspotApiClient: credential.                                         *)
(***************************************************************************)
\* lines 55-67: _get_access_token leaves the token alone without a client
\* and stores the SDK token otherwise
GetAccessToken(cl, tok) == IF cl THEN "sdk_token" ELSE tok

NoResponse == Resp("none", 0, "None", "-", "-", "-", "-")

\* lines 18-22 and 40-53: the constructor either builds the SDK client and
\* takes its token, or is left without client and without token
InitPoll ==
    /\ client \in BOOLEAN
    /\ access_token = GetAccessToken(client, "none")
    /\ acquisitions = IF client THEN 1 ELSE 0
    /\ json_error \in {"ValueError", "RequestsJSONDecodeError"}
    /\ now \in {0, 1}
    /\ pc = "idle"
    /\ polling_delay = 0
    /\ timeout = 0
    /\ status_callback = "none"
    /\ start_time = 0
    /\ attempts = 0
    /\ request_time = 0
    /\ history = <<>>
    /\ last_response = NoResponse
    /\ sent = {}
    /\ callbacks = 0
    /\ callback_raised = "none"
    /\ result = "none"
    /\ error = NoError
    /\ fetches = 0
    /\ fetch_code = 0
    /\ fetch_result = NoResponse

(***************************************************************************)
(* poll_execution_result (lines 89-157).                                   *)
(***************************************************************************)
\* lines 98-117: the call up to the first test of the while condition
Call(delay, to, cb) ==
    /\ pc = "idle"
    /\ LET acquire == access_token = "none"                         \* l.99
           tok == IF acquire THEN GetAccessToken(client, access_token)
                  ELSE access_token
       IN /\ access_token' = tok
          /\ acquisitions' = IF acquire THEN acquisitions + 1 ELSE acquisitions
          /\ IF tok = "none"
             THEN /\ pc' = "raised"                                 \* l.103
                  /\ error' = [type |-> "StackspotApiError",
                               message |-> <<"No access token available">>]
             ELSE /\ pc' = "loop"
                  /\ error' = error
    /\ polling_delay' = delay
    /\ timeout' = to
    /\ status_callback' = cb
    /\ start_time' = now                                            \* l.105
    /\ attempts' = 0                                                \* l.106
    /\ UNCHANGED <<client, json_error, now, request_time, history,
                   last_response, sent, callbacks, callback_raised, result,
                   fetches, fetch_code, fetch_result>>
    /\ UNCHANGED <<batch_vars, other_vars>>

\* the while condition with the clock compared to the timeout directly
DeadlineOpen_FromEpoch == now < timeout

\* line 119: the while condition
DeadlineOpen == (now - start_time) < timeout

\* lines 120-155: one iteration of the loop, given the response of
\* requests.get, the time the request took and what the observer does
PollStep(resp, d, obs) ==
    /\ pc = "loop"
    /\ DeadlineOpen
    /\ attempts' = attempts + 1                                     \* l.120
    /\ request_time' = d
    /\ history' = Append(history, Class(resp))
    /\ last_response' = resp
    /\ sent' = sent \cup {access_token}                             \* l.112
    /\ LET o == TryStatement(resp, status_callback, obs, json_error)
       IN /\ callbacks' = IF o.invoked THEN callbacks + 1 ELSE callbacks
          /\ callback_raised' = IF o.invoked /\ obs # "ok" THEN obs
                                ELSE callback_raised
          /\ CASE o.kind = "return" ->
                    /\ pc' = "returned"
                    /\ result' = resp.payload                       \* l.136
                    /\ error' = error
                    /\ now' = now + d
               [] o.kind = "raise" ->
                    /\ pc' = "raised"
                    /\ result' = result
                    /\ error' = [type |-> o.exc, message |-> o.message]
                    /\ now' = now + d
               [] OTHER ->
                    /\ pc' = "loop"
                    /\ result' = result
                    /\ error' = error
                    /\ now' = now + d + polling_delay               \* l.155
    /\ UNCHANGED <<client, access_token, acquisitions, json_error,
                   polling_delay, timeout, status_callback, start_time,
                   fetches, fetch_code, fetch_result>>
    /\ UNCHANGED <<batch_vars, other_vars>>

\* the time a request takes: an immediate answer or the slowest one
RequestTimes == {0, MaxRequestTime}

PollNetworkError ==
    \E r \in NetworkErrors, d \in RequestTimes : PollStep(r, d, "ok")

PollNotFound ==
    \E r \in NotFound, d \in RequestTimes : PollStep(r, d, "ok")

PollOtherStatus ==
    \E r \in AuthFailures \cup ServerErrors, d \in RequestTimes :
        PollStep(r, d, "ok")

PollInProgress ==
    \E r \in InProgress, d \in RequestTimes, obs \in ObserverResults :
        PollStep(r, d, obs)

PollCompleted ==
    \E r \in Completed, d \in RequestTimes : PollStep(r, d, "ok")

PollRemoteFailure ==
    \E r \in RemoteFailures, d \in RequestTimes : PollStep(r, d, "ok")

PollBadBody ==
    \E r \in BadBodies, d \in RequestTimes : PollStep(r, d, "ok")

\* line 157: the loop condition is false
PollTimeout ==
    /\ pc = "loop"
    /\ ~DeadlineOpen
    /\ pc' = "raised"
    /\ error' = [type |-> "RQCExecutionTimeoutError",
                 message |-> <<"Timeout after", timeout, attempts>>]
    /\ UNCHANGED <<client, access_token, acquisitions, json_error, now,
                   polling_delay, timeout, status_callback, start_time,
                   attempts, request_time, history, last_response, sent, callbacks,
                   callback_raised, result, fetches, fetch_code, fetch_result>>
    /\ UNCHANGED <<batch_vars, other_vars>>

PollCall ==
    \E delay \in 1..MaxDelay, to \in 1..MaxTimeout,
       cb \in {"none", "observer"} : Call(delay, to, cb)

\* FetchToken with the direct exchange made on every call, its token
\* taking the place of the one held
FetchToken_AlwaysDirect(direct) ==
    IF direct # "none" THEN direct
    ELSE IF access_token = "none" /\ client
    THEN GetAccessToken(client, access_token)
    ELSE access_token

(***************************************************************************)
(* get_callback_result (lines 175-241).  direct is what _get_token_direct  *)
(* (lines 243-268) returns when it is called: a token or "none".           *)
(***************************************************************************)
\* lines 185-198: the token the request will carry, "none" if the call
\* returns None before any request
FetchToken(direct) ==
    LET t1 == IF access_token = "none" /\ client
              THEN GetAccessToken(client, access_token)             \* l.187
              ELSE access_token
    IN IF t1 = "none" THEN direct ELSE t1                           \* l.194

\* acquisition calls made by lines 185-198
FetchAcquisitions ==
    (IF access_token = "none" /\ client THEN 1 ELSE 0)
    + (IF GetAccessToken(client, access_token) = "none" THEN 1 ELSE 0)

\* lines 216-241: the value returned for a response
FetchValue(resp) ==
    IF resp.exception = "none" /\ resp.status_code = 200
       /\ resp.shape # "not_json"
    THEN resp                                                       \* l.224
    ELSE NoResponse

\* the responses tried for the callback fetch
FetchResponses ==
    NetworkErrors \cup NotFound \cup AuthFailures \cup ServerErrors
    \cup {Resp("none", 200, "object", "object", "COMPLETED", "absent",
               "payload_a"),
          Resp("none", 200, "not_json", "-", "-", "-", "-"),
          Resp("none", 200, "array", "-", "-", "-", "-")}

GetCallbackResult(direct, resp, d) ==
    /\ pc # "loop"
    /\ fetches < MaxFetches
    /\ fetches' = fetches + 1
    /\ acquisitions' = acquisitions + FetchAcquisitions
    /\ access_token' = FetchToken(direct)
    /\ IF FetchToken(direct) = "none"
       THEN /\ fetch_result' = NoResponse                           \* l.198
            /\ fetch_code' = 0
            /\ UNCHANGED <<sent, now>>
       ELSE /\ fetch_result' = FetchValue(resp)
            /\ fetch_code' = resp.status_code
            /\ sent' = sent \cup {FetchToken(direct)}
            /\ now' = now + d
    /\ UNCHANGED <<client, json_error, pc, polling_delay, timeout,
                   status_callback, start_time, attempts, request_time,
                   history, last_response, callbacks, callback_raised,
                   result, error>>
    /\ UNCHANGED <<batch_vars, other_vars>>

FetchCallback ==
    \E direct \in {"none", "direct_token"}, r \in FetchResponses,
       d \in RequestTimes : GetCallbackResult(direct, r, d)

PollNext ==
    \/ PollCall
    \/ PollNetworkError
    \/ PollNotFound
    \/ PollOtherStatus
    \/ PollInProgress
    \/ PollCompleted
    \/ PollRemoteFailure
    \/ PollBadBody
    \/ PollTimeout

(***************************************************************************)
(* ModernizationService (application/modernization_service.py).            *)
(* A file is named by its path, a number 1..total_files; the execution id  *)
(* the API returns for a file is written as that number, 0 standing for    *)
(* None.                                                                   *)
(***************************************************************************)
\* what execute_quick_command does
SubmitResults == {"ok", "raise"}
\* what poll_execution_result does: it raises or returns a dict, and a
\* client may also hand back text or an empty value
PollResults == {"dict", "str", "empty", "raise"}
\* whether the write of the file itself goes through
WriteResults == {"ok", "raise"}

\* lines 127-141: the record _create_failed_result builds
CreateFailedResult(path, message, eid) ==
    [file_path |-> path, is_successful |-> FALSE, execution_id |-> eid,
     error_message |-> message, modernized_content |-> "none"]

\* infrastructure/file_system.py lines 93-100: save_file raises when
\* write_text refuses the content (it accepts text only) or the write fails
SaveFileRaises(content, write) == content # "str" \/ write = "raise"

\* ModernizeFile without the test of l.60: an empty result goes on to the
\* save and to the successful record
ModernizeFile_EmptyAccepted(path, save, submit, poll, write) ==
    IF submit = "raise"
    THEN CreateFailedResult(path, "Failed to execute command", 0)
    ELSE IF poll = "raise"
    THEN CreateFailedResult(path, "Failed to get results", path)
    ELSE IF save /\ poll # "empty" /\ SaveFileRaises(poll, write)
    THEN CreateFailedResult(path, "Failed to save file", path)
    ELSE [file_path |-> path, is_successful |-> TRUE,
          execution_id |-> path, error_message |-> "none",
          modernized_content |-> poll]

\* lines 25-91: the result modernize_file appends and returns
ModernizeFile(path, save, submit, poll, write) ==
    IF submit = "raise"
    THEN CreateFailedResult(path, "Failed to execute command", 0)   \* l.43
    ELSE IF poll = "raise"
    THEN CreateFailedResult(path, "Failed to get results", path)    \* l.54
    ELSE IF poll = "empty"
    THEN CreateFailedResult(path, "Empty or invalid result", path)  \* l.61
    ELSE IF save /\ SaveFileRaises(poll, write)
    THEN CreateFailedResult(path, "Failed to save file", path)      \* l.76
    ELSE [file_path |-> path, is_successful |-> TRUE,
          execution_id |-> path, error_message |-> "none",
          modernized_content |-> poll]                              \* l.82

\* what happened to a file, from what the API, the poll and the write did:
\* the first of the steps of modernize_file that failed, or "ok"
Happened(save, submit, poll, write) ==
    IF submit = "raise" THEN "submit_raised"
    ELSE IF poll = "raise" THEN "poll_raised"
    ELSE IF poll = "empty" THEN "poll_empty"
    ELSE IF save /\ SaveFileRaises(poll, write) THEN "save_raised"
    ELSE "ok"

\* round(successful / processed * 100, 2) in hundredths of a percent, as
\* the format "{:.2f}" prints it (no tie occurs below 32 processed files)
Percent(successful_, processed_) ==
    (2 * 10000 * successful_ + processed_) \div (2 * processed_)

\* CreateStats with the rate taken over the files found
CreateStats_RateOverTotal(total, processed_, successful_, failed_) ==
    [total_files |-> total, processed |-> processed_,
     successful |-> successful_, failed |-> failed_,
     success_rate |-> IF total > 0
                      THEN <<"%", Percent(successful_, total)>>
                      ELSE <<"0%">>]

\* lines 153-169
CreateStats(total, processed_, successful_, failed_) ==
    [total_files |-> total, processed |-> processed_,
     successful |-> successful_, failed |-> failed_,
     success_rate |-> IF processed_ > 0
                      THEN <<"%", Percent(successful_, processed_)>>
                      ELSE <<"0%">>]

\* lines 143-151
CreateEmptyStats ==
    [total_files |-> 0, processed |-> 0, successful |-> 0, failed |-> 0,
     success_rate |-> <<"0%">>]

NoStats ==
    [total_files |-> 0, processed |-> 0, successful |-> 0, failed |-> 0,
     success_rate |-> <<"none">>]

InitBatch ==
    /\ bpc = "idle"
    /\ direct_calls = 0
    /\ save_changes = TRUE
    /\ total_files = 0
    /\ index = 0
    /\ fates = <<>>
    /\ run_start = 0
    /\ processed = 0
    /\ successful = 0
    /\ failed = 0
    /\ results = <<>>                                               \* l.23
    /\ stats = NoStats

\* a caller uses modernize_file on its own, for the file at path 1
DirectCall ==
    /\ bpc = "idle"
    /\ direct_calls < MaxDirectCalls
    /\ direct_calls' = direct_calls + 1
    /\ \E save \in BOOLEAN, submit \in SubmitResults, poll \in PollResults,
          write \in WriteResults :
          results' = Append(results, ModernizeFile(1, save, submit, poll, write))
    /\ UNCHANGED <<bpc, save_changes, total_files, index, fates, run_start,
                   processed, successful, failed, stats>>
    /\ UNCHANGED <<poll_vars, other_vars>>

\* lines 93-109: modernize_all_files up to the loop, for a repository of n
\* files
StartRun(n, save) ==
    /\ bpc = "idle"
    /\ save_changes' = save
    /\ total_files' = n                                             \* l.99
    /\ run_start' = Len(results)
    /\ index' = 0
    /\ fates' = <<>>
    /\ processed' = 0
    /\ successful' = 0
    /\ failed' = 0
    /\ IF n = 0
       THEN /\ bpc' = "done"
            /\ stats' = CreateEmptyStats                            \* l.105
       ELSE /\ bpc' = "running"
            /\ stats' = stats
    /\ UNCHANGED <<direct_calls, results>>
    /\ UNCHANGED <<poll_vars, other_vars>>

BatchStart ==
    \E n \in 0..MaxFiles, save \in BOOLEAN : StartRun(n, save)

\* infrastructure/file_system.py lines 84-91: get_all_java_files drops a
\* file it cannot read and goes on to the next
SkipUnreadable ==
    /\ bpc = "running"
    /\ index < total_files
    /\ index' = index + 1
    /\ fates' = Append(fates, "skipped")
    /\ UNCHANGED <<bpc, direct_calls, save_changes, total_files, run_start,
                   processed, successful, failed, results, stats>>
    /\ UNCHANGED <<poll_vars, other_vars>>

\* Iterate with a failed file ending the run: the failure leaves
\* modernize_all_files as an exception and no statistics are returned
Iterate_AbortOnFailure(submit, poll, write) ==
    /\ bpc = "running"
    /\ index < total_files
    /\ LET res == ModernizeFile(index + 1, save_changes, submit, poll, write)
       IN /\ results' = Append(results, res)
          /\ fates' = Append(fates, Happened(save_changes, submit, poll, write))
          /\ processed' = processed + 1
          /\ successful' = IF res.is_successful THEN successful + 1
                           ELSE successful
          /\ failed' = IF res.is_successful THEN failed ELSE failed + 1
          /\ bpc' = IF res.is_successful THEN bpc ELSE "done"
    /\ index' = index + 1
    /\ UNCHANGED <<direct_calls, save_changes, total_files, run_start, stats>>
    /\ UNCHANGED <<poll_vars, other_vars>>

\* lines 111-118: one iteration of the loop over the files
Iterate(submit, poll, write) ==
    /\ bpc = "running"
    /\ index < total_files
    /\ LET res == ModernizeFile(index + 1, save_changes, submit, poll, write)
       IN /\ results' = Append(results, res)
          /\ fates' = Append(fates, Happened(save_changes, submit, poll, write))
          /\ processed' = processed + 1
          /\ successful' = IF res.is_successful THEN successful + 1
                           ELSE successful
          /\ failed' = IF res.is_successful THEN failed ELSE failed + 1
    /\ index' = index + 1
    /\ UNCHANGED <<bpc, direct_calls, save_changes, total_files, run_start,
                   stats>>
    /\ UNCHANGED <<poll_vars, other_vars>>

SubmitFails ==
    \E poll \in PollResults, write \in WriteResults :
        Iterate("raise", poll, write)

PollFails ==
    \E write \in WriteResults : Iterate("ok", "raise", write)

EmptyResult ==
    \E write \in WriteResults : Iterate("ok", "empty", write)

SaveFails ==
    /\ save_changes
    /\ \E poll \in {"dict", "str"}, write \in WriteResults :
          /\ SaveFileRaises(poll, write)
          /\ Iterate("ok", poll, write)

FileModernized ==
    \E poll \in {"dict", "str"}, write \in WriteResults :
        /\ ~(save_changes /\ SaveFileRaises(poll, write))
        /\ Iterate("ok", poll, write)

\* lines 120-125: the loop is over
FinishRun ==
    /\ bpc = "running"
    /\ index = total_files
    /\ bpc' = "done"
    /\ stats' = CreateStats(total_files, processed, successful, failed)
    /\ UNCHANGED <<direct_calls, save_changes, total_files, index, fates,
                   run_start, processed, successful, failed, results>>
    /\ UNCHANGED <<poll_vars, other_vars>>

\* application/report_generator.py lines 30-43, without files_with_changes
GenerateSummary(res) ==
    LET total == Len(res)
        ok == Cardinality({i \in 1..Len(res) : res[i].is_successful})
    IN [total_files |-> total, successful |-> ok, failed |-> total - ok,
        success_rate |-> IF total > 0 THEN <<"%", Percent(ok, total)>>
                         ELSE <<"0%">>]

BatchNext ==
    \/ DirectCall
    \/ BatchStart
    \/ SkipUnreadable
    \/ SubmitFails
    \/ PollFails
    \/ EmptyResult
    \/ SaveFails
    \/ FileModernized
    \/ FinishRun

(***************************************************************************)
(* StackSpotResultProcessor: the answer parser _parse_json_answer.         *)
(* A text is a sequence of tokens:                                         *)
(*   "p"  a word of prose            "j"  the word json                    *)
(*   "n"  a newline (whitespace)     "f"  a fence of three backticks       *)
(*   "{" "}" "[" "]"  the JSON delimiters (brackets in documents only)     *)
(*   "v"  a scalar literal such as 1                                       *)
(*   "m"  an object member whose value has the shape that the record of  *)
(*        the step declares for its key, such as "frameworks": [{...}]     *)
(*   "w"  the same member with a str value, such as "frameworks": "none"   *)
(* Structured data is written as its text without whitespace.              *)
(***************************************************************************)
Tokens == {"p", "j", "n", "f", "{", "}", "v", "m"}

MemberTokens == {"m", "w"}

JsonTokens == {"{", "}", "[", "]", "v", "n"} \cup MemberTokens

Texts(alphabet, maxLen) == UNION {[1..k -> alphabet] : k \in 0..maxLen}

\* a Python value handed in as the answer: its type, its truth value and,
\* for a str, its text
PyValue(type, truthy, text) == [type |-> type, truthy |-> truthy, text |-> text]

Str(text) == PyValue("str", text # <<>>, text)

\* None, 0, 7, a non-empty dict, an empty list
NonStrings ==
    {PyValue("NoneType", FALSE, <<>>), PyValue("int", FALSE, <<>>),
     PyValue("int", TRUE, <<>>), PyValue("dict", TRUE, <<>>),
     PyValue("list", FALSE, <<>>)}

\* str.strip()
RECURSIVE LStrip(_)
LStrip(s) == IF s # <<>> /\ Head(s) = "n" THEN LStrip(Tail(s)) ELSE s

RECURSIVE RStrip(_)
RStrip(s) ==
    IF s # <<>> /\ s[Len(s)] = "n" THEN RStrip(SubSeq(s, 1, Len(s) - 1))
    ELSE s

Strip(s) == RStrip(LStrip(s))

\* str.find and str.rfind, positions counted from 1, 0 when absent
Positions(s, token) == {i \in 1..Len(s) : s[i] = token}

Least(S) == CHOOSE x \in S : \A y \in S : x <= y

Greatest(S) == CHOOSE x \in S : \A y \in S : x >= y

Find(s, token) ==
    IF Positions(s, token) = {} THEN 0 ELSE Least(Positions(s, token))

RFind(s, token) ==
    IF Positions(s, token) = {} THEN 0 ELSE Greatest(Positions(s, token))

\* what a piece of code did: returned a value, raised, or ran to its end
Returns(value) == [kind |-> "return", value |-> value, exception |-> "none"]

Raises(cls) == [kind |-> "raise", value |-> <<>>, exception |-> cls]

Passes == [kind |-> "pass", value |-> <<>>, exception |-> "none"]

\* json.loads of a str: whitespace between tokens is skipped, the rest must
\* be exactly one value (a scalar, or an object or array of at most one
\* element, arrays nesting freely)
Canonical(text) == SelectSeq(text, LAMBDA t : t # "n")

RECURSIVE IsValue(_)
IsValue(t) ==
    \/ t = <<"v">>
    \/ t = <<"{", "}">>
    \/ Len(t) = 3 /\ t[1] = "{" /\ t[2] \in MemberTokens /\ t[3] = "}"
    \/ t = <<"[", "]">>
    \/ /\ Len(t) >= 3
       /\ t[1] = "["
       /\ t[Len(t)] = "]"
       /\ IsValue(SubSeq(t, 2, Len(t) - 1))

JsonLoads(text) ==
    IF IsValue(Canonical(text)) THEN Returns(Canonical(text))
    ELSE Raises("JSONDecodeError")

\* the dict {}
EmptyPayload == <<"{", "}">>

\* re.search(pattern, answer, re.DOTALL) for the four patterns of strategy
\* 2.  A pattern is an opening (a fence, tagged with json or not) followed
\* either by \s*\n (.*?) \n``` or by (.*?) ```.
Pattern(tagged, newlines) == [tagged |-> tagged, newlines |-> newlines]

patterns ==
    <<Pattern(TRUE, TRUE), Pattern(FALSE, TRUE),
      Pattern(TRUE, FALSE), Pattern(FALSE, FALSE)>>

OpeningLen(pattern) == IF pattern.tagged THEN 2 ELSE 1

Opens(s, i, pattern) ==
    /\ i + OpeningLen(pattern) - 1 <= Len(s)
    /\ s[i] = "f"
    /\ pattern.tagged => s[i + 1] = "j"

\* the same, the opening left to the group
GroupStarts_AtOpening(s, i, pattern) == {i}

\* where group 1 may start for a match that opens at i: right after the
\* opening, or after any non-empty run of newlines that follows it
GroupStarts(s, i, pattern) ==
    LET after == i + OpeningLen(pattern)
    IN  IF pattern.newlines
        THEN {g \in (after + 1)..(Len(s) + 1) :
                 \A q \in after..(g - 1) : s[q] = "n"}
        ELSE {after}

\* where the closing may start for a group that starts at g
Closings(s, g, pattern) ==
    IF pattern.newlines
    THEN {e \in g..(Len(s) - 1) : s[e] = "n" /\ s[e + 1] = "f"}
    ELSE {e \in g..Len(s) : s[e] = "f"}

\* the match that opens at i, if any: \s* is greedy (the latest group start
\* that still lets the rest match), the group is lazy (the nearest closing)
MatchAt(s, i, pattern) ==
    LET starts == {g \in GroupStarts(s, i, pattern) :
                      Closings(s, g, pattern) # {}}
        g == Greatest(starts)
        e == Least(Closings(s, g, pattern))
    IN  IF Opens(s, i, pattern) /\ starts # {}
        THEN [found |-> TRUE, group |-> SubSeq(s, g, e - 1)]
        ELSE [found |-> FALSE, group |-> <<>>]

\* re.search: the leftmost position with a match
Search(s, pattern) ==
    LET hits == {i \in 1..Len(s) : MatchAt(s, i, pattern).found}
    IN  IF hits = {} THEN [found |-> FALSE, group |-> <<>>]
        ELSE MatchAt(s, Least(hits), pattern)

\* Strategy 1 (l.148)
Direct(a) ==
    IF a.type # "str" THEN Raises("AttributeError")
    ELSE JsonLoads(Strip(a.text))

\* Strategy 2 (l.155-166): the first pattern that matches decides
RECURSIVE FencedFrom(_, _)
FencedFrom(a, k) ==
    IF k > Len(patterns) THEN Passes
    ELSE LET match == Search(a.text, patterns[k])
         IN  IF match.found THEN JsonLoads(Strip(match.group))
             ELSE FencedFrom(a, k + 1)

Fenced(a) ==
    IF a.type # "str" THEN Raises("TypeError") ELSE FencedFrom(a, 1)

\* Strategy 3 with the closing taken at its first occurrence
Boundary_FirstClosing(a) ==
    LET s == a.text
        start_brace == Find(s, "{")
        start_bracket == Find(s, "[")
        start == IF start_brace = 0 THEN start_bracket
                 ELSE IF start_bracket = 0 THEN start_brace
                 ELSE IF start_brace < start_bracket THEN start_brace
                 ELSE start_bracket
        end_char == IF start_brace = 0 THEN "]"
                    ELSE IF start_bracket = 0 THEN "}"
                    ELSE IF start = start_brace THEN "}" ELSE "]"
        end == Find(s, end_char)
    IN  IF a.type # "str" THEN Raises("AttributeError")
        ELSE IF start # 0 /\ end # 0 THEN JsonLoads(SubSeq(s, start, end))
        ELSE Passes

\* Strategy 3 (l.173-191)
Boundary(a) ==
    LET s == a.text
        start_brace == Find(s, "{")
        start_bracket == Find(s, "[")
        start == IF start_brace = 0 THEN start_bracket
                 ELSE IF start_bracket = 0 THEN start_brace
                 ELSE IF start_brace < start_bracket THEN start_brace
                 ELSE start_bracket
        end_char == IF start_brace = 0 THEN "]"
                    ELSE IF start_bracket = 0 THEN "}"
                    ELSE IF start = start_brace THEN "}" ELSE "]"
        end == RFind(s, end_char)
    IN  IF a.type # "str" THEN Raises("AttributeError")
        ELSE IF start # 0 /\ end # 0 THEN JsonLoads(SubSeq(s, start, end))
        ELSE Passes

Strategies == <<"direct", "fenced", "boundary">>

\* the same, the fenced strategy tried before the direct parse
Attempt_FencedFirst(k, a) ==
    CASE k = 1 -> Fenced(a)
      [] k = 2 -> Direct(a)
      [] k = 3 -> Boundary(a)

Attempt(k, a) ==
    CASE k = 1 -> Direct(a)
      [] k = 2 -> Fenced(a)
      [] k = 3 -> Boundary(a)

\* the except clause of each strategy (l.149, l.167, l.192)
StrategyCaught(k, exc) ==
    CASE k = 1 -> IsSubclass(exc, "JSONDecodeError")
      [] k = 2 -> IsSubclass(exc, "JSONDecodeError")
                  \/ IsSubclass(exc, "AttributeError")
      [] k = 3 -> IsSubclass(exc, "JSONDecodeError")
                  \/ IsSubclass(exc, "ValueError")

\* the same, without the isinstance test
Unusable_EmptyOnly(a) == ~a.truthy

\* the guard of l.143
Unusable(a) == ~a.truthy \/ a.type # "str"

Parsed(outcome, evaluated) ==
    [kind |-> outcome.kind, value |-> outcome.value,
     exception |-> outcome.exception, evaluated |-> evaluated]

RECURSIVE StrategiesFrom(_, _)
StrategiesFrom(a, k) ==
    IF k > Len(Strategies)
    THEN Parsed(Returns(EmptyPayload), Strategies)                   \* l.196
    ELSE LET outcome == Attempt(k, a)
         IN  IF outcome.kind = "return"
                \/ (outcome.kind = "raise"
                    /\ ~StrategyCaught(k, outcome.exception))
             THEN Parsed(outcome, SubSeq(Strategies, 1, k))
             ELSE StrategiesFrom(a, k + 1)

\* _parse_json_answer (l.141-196)
ParseJsonAnswer(a) ==
    IF Unusable(a) THEN Parsed(Returns(EmptyPayload), <<>>)          \* l.144
    ELSE StrategiesFrom(a, 1)

(***************************************************************************)
(* StackSpotResultProcessor: the four record shapes and their mappers.     *)
(* A field value is written as Python would print it: '' [] {} None False  *)
(* for the defaults, [x] and {x} for a non-empty list and mapping, 'none'  *)
(* for a non-empty str.                                                    *)
(***************************************************************************)
Kinds == {"analysis", "plan", "refactor", "metrics"}

Field(name, value) == <<name, value>>

\* the dataclasses (l.13-62): every field with its declared default
AnalysisResult ==
    {Field("timestamp", "''"), Field("repository", "''"),
     Field("java_version", "''"), Field("spring_boot_version", "None"),
     Field("frameworks", "[]"), Field("outdated_dependencies", "[]"),
     Field("legacy_patterns", "[]"), Field("code_smells", "[]"),
     Field("architecture_notes", "{}"), Field("summary", "''")}

PlanResult ==
    {Field("timestamp", "''"), Field("strategy", "''"),
     Field("estimated_duration", "''"), Field("steps", "[]"),
     Field("milestones", "[]"), Field("risks", "[]"),
     Field("recommendations", "[]")}

RefactorResult ==
    {Field("timestamp", "''"), Field("step_id", "''"), Field("status", "''"),
     Field("changes", "[]"), Field("issues", "[]"),
     Field("compilation_status", "''"), Field("tests_run", "False"),
     Field("next_step", "''")}

MetricsResult ==
    {Field("metadata", "{}"), Field("execution", "{}"),
     Field("agents_metrics", "{}"), Field("totals", "{}"),
     Field("modernization_impact", "{}"), Field("quality_metrics", "{}"),
     Field("versions", "{}")}

Dataclass(kind) ==
    CASE kind = "analysis" -> AnalysisResult
      [] kind = "plan"     -> PlanResult
      [] kind = "refactor" -> RefactorResult
      [] kind = "metrics"  -> MetricsResult

\* a dataclass instance with every field at its declared default
Defaults(kind) ==
    [name \in {f[1] : f \in Dataclass(kind)} |->
        (CHOOSE f \in Dataclass(kind) : f[1] = name)[2]]

\* the key that the member tokens "m" and "w" stand for in a payload of
\* each kind, and the value "m" gives it (one of the declared shape)
MemberKey(kind) ==
    CASE kind = "analysis" -> "frameworks"
      [] kind = "plan"     -> "steps"
      [] kind = "refactor" -> "changes"
      [] kind = "metrics"  -> "totals"

MemberValue(kind, token) ==
    IF token = "w" THEN "'none'"
    ELSE IF kind = "metrics" THEN "{x}" ELSE "[x]"

\* the Python type of a payload
PayloadType(data) ==
    CASE Head(data) = "{" -> "dict"
      [] Head(data) = "[" -> "list"
      [] OTHER            -> "int"

\* dict.get(key, default) on a payload of the given kind
Get(kind, data, key, default) ==
    IF Len(data) = 3 /\ key = MemberKey(kind)
    THEN MemberValue(kind, data[2])
    ELSE default

Getter(field, key, default) == <<field, key, default>>

\* a mapper made of getters: the first .get on a value that is no dict
\* raises AttributeError
Record(kind, getters, data) ==
    IF PayloadType(data) # "dict"
    THEN [kind |-> "raise", exception |-> "AttributeError",
          fields |-> Defaults(kind)]
    ELSE [kind |-> "return", exception |-> "none",
          fields |-> [name \in {g[1] : g \in getters} |->
                         LET g == CHOOSE g \in getters : g[1] = name
                         IN  Get(kind, data, g[2], g[3])]]

\* process_analysis (l.198-211)
ProcessAnalysis(analysis_data) ==
    Record("analysis",
           {Getter("timestamp", "timestamp", "''"),
            Getter("repository", "repository", "''"),
            Getter("java_version", "javaVersion", "''"),
            Getter("spring_boot_version", "springBootVersion", "None"),
            Getter("frameworks", "frameworks", "[]"),
            Getter("outdated_dependencies", "outdatedDependencies", "[]"),
            Getter("legacy_patterns", "legacyPatterns", "[]"),
            Getter("code_smells", "codeSmells", "[]"),
            Getter("architecture_notes", "architectureNotes", "{}"),
            Getter("summary", "summary", "''")},
           analysis_data)

\* process_plan (l.213-223)
ProcessPlan(plan_data) ==
    Record("plan",
           {Getter("timestamp", "timestamp", "''"),
            Getter("strategy", "strategy", "''"),
            Getter("estimated_duration", "estimatedDuration", "''"),
            Getter("steps", "steps", "[]"),
            Getter("milestones", "milestones", "[]"),
            Getter("risks", "risks", "[]"),
            Getter("recommendations", "recommendations", "[]")},
           plan_data)

\* process_refactor (l.225-236)
ProcessRefactor(refactor_data) ==
    Record("refactor",
           {Getter("timestamp", "timestamp", "''"),
            Getter("step_id", "stepId", "''"),
            Getter("status", "status", "''"),
            Getter("changes", "changes", "[]"),
            Getter("issues", "issues", "[]"),
            Getter("compilation_status", "compilationStatus", "''"),
            Getter("tests_run", "testsRun", "False"),
            Getter("next_step", "nextStep", "''")},
           refactor_data)

\* process_metrics (l.238-248)
ProcessMetrics(metrics_data) ==
    Record("metrics",
           {Getter("metadata", "metadata", "{}"),
            Getter("execution", "execution", "{}"),
            Getter("agents_metrics", "agents_metrics", "{}"),
            Getter("totals", "totals", "{}"),
            Getter("modernization_impact", "modernization_impact", "{}"),
            Getter("quality_metrics", "quality_metrics", "{}"),
            Getter("versions", "versions", "{}")},
           metrics_data)

Process(kind, data) ==
    CASE kind = "analysis" -> ProcessAnalysis(data)
      [] kind = "plan"     -> ProcessPlan(data)
      [] kind = "refactor" -> ProcessRefactor(data)
      [] kind = "metrics"  -> ProcessMetrics(data)

NotMapped ==
    [kind \in Kinds |->
        [kind |-> "none", exception |-> "none", fields |-> Defaults(kind)]]

(***************************************************************************)
(* One answer handed to _parse_json_answer, and its payload handed on to   *)
(* the mappers.                                                            *)
(***************************************************************************)
NoAnswer == PyValue("NoneType", FALSE, <<"-">>)

NotParsed == Parsed(Passes, <<>>)

NoInterior == <<"-">>

InitParser ==
    /\ answer = NoAnswer
    /\ interior = NoInterior
    /\ parsed = NotParsed
    /\ first_parsed = NotParsed
    /\ parse_calls = 0
    /\ records = NotMapped

\* the answers tried: every text of up to MaxAnswerLen tokens, the values
\* that are no str, and texts made of a structured document (arrays
\* included) with or without prose around it, fenced or bare
FreeAnswers == {Str(t) : t \in Texts(Tokens, MaxAnswerLen)} \cup NonStrings

Prose == {<<"p">>, <<"p", "n">>, <<"n", "p">>}

Documents == {t \in Texts(JsonTokens, MaxDocLen) : IsValue(Canonical(t))}

Gaps == {<<>>, <<"n">>}

FencedBlock(before, open, doc, close, after) ==
    before \o <<"f", "j">> \o open \o doc \o close \o <<"f">> \o after

\* the first call of _parse_json_answer on an answer
ParseCall(a, doc) ==
    /\ parse_calls = 0
    /\ answer' = a
    /\ interior' = doc
    /\ parsed' = ParseJsonAnswer(a)
    /\ first_parsed' = parsed'
    /\ parse_calls' = 1
    /\ UNCHANGED records
    /\ UNCHANGED outside_parser

ParseAnswer ==
    /\ parse_calls = 0
    /\ load_calls = 0
    /\ \E a \in FreeAnswers : ParseCall(a, NoInterior)

ParseFencedAnswer ==
    /\ parse_calls = 0
    /\ load_calls = 0
    /\ \E before \in Prose, after \in Prose, open \in Gaps, close \in Gaps,
          doc \in Documents :
           ParseCall(Str(FencedBlock(before, open, doc, close, after)), doc)

ParseEmbeddedAnswer ==
    /\ parse_calls = 0
    /\ load_calls = 0
    /\ \E before \in Prose \cup {<<>>}, after \in Prose \cup {<<>>},
          doc \in Documents :
           ParseCall(Str(before \o doc \o after), NoInterior)

\* answers made of braces, brackets, members and prose in any order
ScanTokens == {"{", "}", "[", "]", "m", "p"}

ParseBracketedAnswer ==
    /\ parse_calls = 0
    /\ load_calls = 0
    /\ \E t \in Texts(ScanTokens, MaxAnswerLen) :
           ParseCall(Str(t), NoInterior)

\* answers that hold two fenced blocks, each json-tagged or not, each with
\* its interior on lines of its own or not, around a document that parses
\* or one that does not
BlockDocs == {<<"{", "m", "}">>, <<"[", "v", "]">>, <<"{", "p", "}">>, <<"p">>}

Block(tagged, newlines, doc) ==
    <<"f">> \o (IF tagged THEN <<"j">> ELSE <<>>)
            \o (IF newlines THEN <<"n">> ELSE <<>>)
            \o doc
            \o (IF newlines THEN <<"n">> ELSE <<>>) \o <<"f">>

ParseTwoBlocks ==
    /\ parse_calls = 0
    /\ load_calls = 0
    /\ \E t1 \in BOOLEAN, n1 \in BOOLEAN, d1 \in BlockDocs,
          t2 \in BOOLEAN, n2 \in BOOLEAN, d2 \in BlockDocs,
          between \in {<<"n">>, <<"p">>} :
           ParseCall(Str(Block(t1, n1, d1) \o between \o Block(t2, n2, d2)),
                     NoInterior)

\* a second call on the same answer
ParseAgain ==
    /\ parse_calls = 1
    /\ parsed' = ParseJsonAnswer(answer)
    /\ parse_calls' = parse_calls + 1
    /\ UNCHANGED <<answer, interior, first_parsed, records>>
    /\ UNCHANGED outside_parser

\* the caller hands the payload that _parse_json_answer returned to each of
\* the four mappers
MapPayload ==
    /\ parse_calls > 0
    /\ parsed.kind = "return"
    /\ records = NotMapped
    /\ records' = [kind \in Kinds |-> Process(kind, parsed.value)]
    /\ UNCHANGED <<answer, interior, parsed, first_parsed, parse_calls>>
    /\ UNCHANGED outside_parser

ParserNext ==
    \/ ParseAnswer
    \/ ParseFencedAnswer
    \/ ParseEmbeddedAnswer
    \/ ParseAgain
    \/ MapPayload

\* the answers that put the fallbacks of _parse_json_answer to work
FallbackNext ==
    \/ ParseBracketedAnswer
    \/ ParseTwoBlocks
    \/ ParseAgain

(***************************************************************************)
(* StackSpotResultProcessor on a loaded callback: extract_step_results,    *)
(* generate_summary_report and save_structured_results.                    *)
(* A dict that is iterated is a sequence of <<key, value>> pairs in        *)
(* insertion order.                                                        *)
(***************************************************************************)
DictKeys(d) == {d[i][1] : i \in 1..Len(d)}

\* d[key] = value
DictSet(d, key, value) ==
    IF key \in DictKeys(d)
    THEN [i \in 1..Len(d) |-> IF d[i][1] = key THEN <<key, value>> ELSE d[i]]
    ELSE Append(d, <<key, value>>)

\* d[key], for a key of d
DictValue(d, key) == d[CHOOSE i \in 1..Len(d) : d[i][1] = key][2]

\* the truth value of a payload: {} and [] are false
Truthy(data) == data \notin {<<"{", "}">>, <<"[", "]">>}

\* step_mapping (l.123-128)
StepMapping(step_name) ==
    CASE step_name = "step-analyze"  -> "analysis"
      [] step_name = "step-plan"     -> "plan"
      [] step_name = "step-refactor" -> "refactor"
      [] step_name = "step-metrics"  -> "metrics"
      [] OTHER                       -> "None"

\* one element of the steps list of a callback
Step(step_name, ans) == [step_name |-> step_name, answer |-> ans]

\* self.raw_result: None, or the dict read from the callback file
NoCallback == [loaded |-> FALSE, steps |-> <<>>]

Callback(steps) == [loaded |-> TRUE, steps |-> steps]

\* the loop of l.113-137
RECURSIVE ExtractFrom(_, _)
ExtractFrom(steps, acc) ==
    IF steps = <<>> THEN acc
    ELSE LET step == Head(steps)
             result_key == StepMapping(step.step_name)
             parsed_data == ParseJsonAnswer(step.answer)
         IN  IF ~step.answer.truthy                                  \* l.118
             THEN ExtractFrom(Tail(steps), acc)
             ELSE IF result_key = "None"                             \* l.131
             THEN ExtractFrom(Tail(steps), acc)
             ELSE IF Truthy(parsed_data.value)                       \* l.133
             THEN ExtractFrom(Tail(steps),
                              DictSet(acc, result_key, parsed_data.value))
             ELSE ExtractFrom(Tail(steps), acc)

\* the same, the steps consumed from self.raw_result
ExtractStepResults_Consuming(raw) ==
    [value |-> IF ~raw.loaded \/ raw.steps = <<>> THEN <<>>
               ELSE ExtractFrom(raw.steps, <<>>),
     raw |-> IF raw.loaded THEN Callback(<<>>) ELSE raw]

\* extract_step_results (l.100-139): the dict returned and self.raw_result
\* afterwards
ExtractStepResults(raw) ==
    [value |-> IF ~raw.loaded \/ raw.steps = <<>> THEN <<>>          \* l.102-109
               ELSE ExtractFrom(raw.steps, <<>>),
     raw |-> raw]

\* the rendering of one record (l.330-476): iterating a str in place of a
\* list of dicts, or .get on a str in place of a dict, raises
Render(kind, record) ==
    IF kind # "plan" /\ record.fields[MemberKey(kind)] = "'none'"
    THEN Raises("AttributeError")
    ELSE Passes

\* generate_summary_report (l.276-487)
RECURSIVE ReportFrom(_, _)
ReportFrom(kinds, step_results) ==
    IF kinds = <<>> THEN Returns(<<"report">>)
    ELSE LET kind == Head(kinds)
             record == Process(kind, DictValue(step_results, kind))
         IN  IF kind \notin DictKeys(step_results)
             THEN ReportFrom(Tail(kinds), step_results)
             ELSE IF record.kind = "raise"
             THEN Raises(record.exception)
             ELSE IF Render(kind, record).kind = "raise"
             THEN Render(kind, record)
             ELSE ReportFrom(Tail(kinds), step_results)

GenerateSummaryReport(raw) ==
    IF ~raw.loaded THEN Returns(<<"no callback">>)                   \* l.278
    ELSE ReportFrom(<<"analysis", "plan", "refactor", "metrics">>,
                    ExtractStepResults(raw).value)

\* the same, no except clause
SaveCaught_Nothing(exc) == FALSE

\* the except clauses of save_structured_results (l.511, l.522)
SaveCaught(exc) == IsSubclass(exc, "Exception")

Saving(attempted_, saved, raised) ==
    [attempted |-> attempted_, saved |-> saved, raised |-> raised]

\* the loop of l.503-512; the writes of the artifacts in failing raise
RECURSIVE SaveSteps(_, _, _)
SaveSteps(items, fail, acc) ==
    IF items = <<>> THEN acc
    ELSE LET step_name == Head(items)[1]
             data == Head(items)[2]
             tried == acc.attempted \cup {step_name}
         IN  IF ~Truthy(data)                                        \* l.504
             THEN SaveSteps(Tail(items), fail, acc)
             ELSE IF step_name \notin fail
             THEN SaveSteps(Tail(items), fail,
                            Saving(tried, acc.saved \cup {step_name}, "none"))
             ELSE IF SaveCaught("OSError")
             THEN SaveSteps(Tail(items), fail,
                            Saving(tried, acc.saved, "none"))
             ELSE Saving(tried, acc.saved, "OSError")

\* l.515-523
SaveReport(raw, fail, acc) ==
    LET summary_report == GenerateSummaryReport(raw)
        tried == acc.attempted \cup {"report"}
        exc == IF summary_report.kind = "raise"
               THEN summary_report.exception
               ELSE IF "report" \in fail THEN "OSError" ELSE "none"
    IN  IF acc.raised # "none" THEN acc
        ELSE IF exc = "none"
        THEN Saving(tried, acc.saved \cup {"report"}, "none")
        ELSE IF SaveCaught(exc) THEN Saving(tried, acc.saved, "none")
        ELSE Saving(tried, acc.saved, exc)

NotSaved == Saving({}, {}, "none")

InitProcessor ==
    /\ raw_result = NoCallback                                       \* l.69
    /\ callback_file = NoCallback
    /\ load_calls = 0
    /\ extracted = <<>>
    /\ first_extracted = <<>>
    /\ extract_calls = 0
    /\ saving = NotSaved
    /\ failing = {}
    /\ save_calls = 0

\* the callbacks tried: up to MaxSteps steps, each one of the named steps
\* with one of these answers
StepNames == {"step-analyze", "step-plan", "step-other"}

StepAnswers ==
    {Str(<<>>), Str(<<"p">>), Str(<<"{", "}">>), Str(<<"{", "m", "}">>),
     Str(<<"{", "w", "}">>), Str(<<"[", "v", "]">>)}

StepLists ==
    UNION {[1..k -> {Step(n, a) : n \in StepNames, a \in StepAnswers}] :
              k \in 0..MaxSteps}

\* load_callback_result (l.75-98) of a file that holds a callback, or of a
\* file that is missing or unreadable
LoadCallbackResult(file) ==
    /\ raw_result' = file
    /\ callback_file' = file
    /\ load_calls' = 1
    /\ UNCHANGED <<extracted, first_extracted, extract_calls, saving,
                   failing, save_calls>>
    /\ UNCHANGED outside_processor

LoadCallback ==
    /\ load_calls = 0
    /\ parse_calls = 0
    /\ \E steps \in StepLists : LoadCallbackResult(Callback(steps))

LoadMissingFile ==
    /\ load_calls = 0
    /\ parse_calls = 0
    /\ LoadCallbackResult(NoCallback)

\* a call of extract_step_results
ExtractCall ==
    /\ load_calls > 0
    /\ save_calls = 0
    /\ extract_calls < MaxExtractCalls
    /\ extracted' = ExtractStepResults(raw_result).value
    /\ raw_result' = ExtractStepResults(raw_result).raw
    /\ first_extracted' = IF extract_calls = 0 THEN extracted'
                          ELSE first_extracted
    /\ extract_calls' = extract_calls + 1
    /\ UNCHANGED <<callback_file, load_calls, saving, failing, save_calls>>
    /\ UNCHANGED outside_processor

\* the artifacts that save_structured_results writes for a callback
Artifacts(raw) ==
    IF ~raw.loaded THEN {}
    ELSE DictKeys(ExtractStepResults(raw).value) \cup {"report"}

\* save_structured_results (l.489-525), the writes of the artifacts in fail
\* failing
SaveStructuredResults(fail) ==
    /\ saving' =
          IF ~raw_result.loaded THEN NotSaved                        \* l.496
          ELSE SaveReport(raw_result, fail,
                          SaveSteps(ExtractStepResults(raw_result).value,
                                    fail, NotSaved))
    /\ failing' = fail
    /\ save_calls' = 1
    /\ raw_result' = ExtractStepResults(raw_result).raw
    /\ UNCHANGED <<callback_file, load_calls, extracted, first_extracted,
                   extract_calls>>
    /\ UNCHANGED outside_processor

SaveCall ==
    /\ load_calls > 0
    /\ save_calls = 0
    /\ \E fail \in SUBSET Artifacts(raw_result) : SaveStructuredResults(fail)

ProcessorNext ==
    \/ ParserNext
    \/ LoadCallback
    \/ LoadMissingFile
    \/ ExtractCall
    \/ SaveCall

(***************************************************************************)
(* The files of the persisted artifacts.  Each of them is written by       *)
(*     with open(path, 'w', encoding='utf-8') as f: json.dump / f.write    *)
(* open(..., 'w') truncates the file in place, the content follows piece   *)
(* by piece, and the end of the with block closes the file.  A cancelled   *)
(* run (KeyboardInterrupt, or the process killed) stops wherever it is.    *)
(***************************************************************************)
Writers == {"save_structured_results", "_save_callback_results", "execute"}

\* the files each function writes, in its order
WriterFiles(w) ==
    CASE w = "save_structured_results" ->
             <<"analysis-result.json", "modernization-report.md">>
      [] w = "_save_callback_results" ->
             <<"callback-result.json", "callback-result-pretty.json">>
      [] w = "execute" ->
             <<"refactor-result.json">>

PersistedFiles == UNION {{WriterFiles(w)[i] : i \in 1..Len(WriterFiles(w))} :
                            w \in Writers}

\* a file that does not exist
Absent == [version |-> 0, chunks |-> 0]

\* a file holds the whole content of some version
Complete(file) == file = Absent \/ file.chunks = MaxChunks

InitDisk ==
    /\ disk = [f \in PersistedFiles |-> Absent]
    /\ writer = "none"
    /\ file_index = 0
    /\ handle = "closed"
    /\ runs = 0
    /\ interrupted = FALSE

CurrentFile == WriterFiles(writer)[file_index]

\* one of the functions starts persisting
StartPersisting(w) ==
    /\ writer = "none"
    /\ ~interrupted
    /\ runs < MaxRuns
    /\ writer' = w
    /\ file_index' = 1
    /\ runs' = runs + 1
    /\ UNCHANGED <<disk, handle, interrupted>>
    /\ UNCHANGED outside_disk

Persist == \E w \in Writers : StartPersisting(w)

\* open(path, 'w'): the file exists and is empty
OpenForWrite ==
    /\ writer # "none"
    /\ ~interrupted
    /\ handle = "closed"
    /\ file_index <= Len(WriterFiles(writer))
    /\ disk' = [disk EXCEPT ![CurrentFile] = [version |-> runs, chunks |-> 0]]
    /\ handle' = "open"
    /\ UNCHANGED <<writer, file_index, runs, interrupted>>
    /\ UNCHANGED outside_disk

\* json.dump(data, f) / f.write(text): one more piece reaches the file
WriteChunk ==
    /\ handle = "open"
    /\ ~interrupted
    /\ disk[CurrentFile].chunks < MaxChunks
    /\ disk' = [disk EXCEPT ![CurrentFile].chunks = @ + 1]
    /\ UNCHANGED <<writer, file_index, handle, runs, interrupted>>
    /\ UNCHANGED outside_disk

\* the end of the with block, and on to the next file
CloseFile ==
    /\ handle = "open"
    /\ ~interrupted
    /\ disk[CurrentFile].chunks = MaxChunks
    /\ handle' = "closed"
    /\ file_index' = file_index + 1
    /\ UNCHANGED <<disk, writer, runs, interrupted>>
    /\ UNCHANGED outside_disk

\* the function returns
FinishPersisting ==
    /\ writer # "none"
    /\ ~interrupted
    /\ handle = "closed"
    /\ file_index > Len(WriterFiles(writer))
    /\ writer' = "none"
    /\ file_index' = 0
    /\ UNCHANGED <<disk, handle, runs, interrupted>>
    /\ UNCHANGED outside_disk

\* the run is cancelled while a function is persisting: an open file is
\* closed with what it has
Interrupt ==
    /\ writer # "none"
    /\ ~interrupted
    /\ interrupted' = TRUE
    /\ handle' = "closed"
    /\ UNCHANGED <<disk, writer, file_index, runs>>
    /\ UNCHANGED outside_disk

DiskNext ==
    \/ Persist
    \/ OpenForWrite
    \/ WriteChunk
    \/ CloseFile
    \/ FinishPersisting
    \/ Interrupt

(***************************************************************************)
(* The blocking remote calls of StackspotApiClient and of                  *)
(* StackSpotWorkflowClient.  Each call site gives requests a timeout or    *)
(* none; without one requests waits for as long as the remote side stays   *)
(* silent.  A timeout of 0 stands for none.                                *)
(***************************************************************************)
\* timeout=30 (stackspot_client.py l.123, l.216, l.255)
RequestTimeout == 30

NoTimeout == 0

Site(call, limits) == [call |-> call, limits |-> limits]

\* every call site with the timeouts it can run under.  The SDK call of
\* execute_quick_command passes none (l.79-82); what the SDK sets itself is
\* not in this repository, so both are possible.
RemoteCalls ==
    {Site("execute_quick_command", {NoTimeout, RequestTimeout}),
     Site("poll_execution_result", {RequestTimeout}),
     Site("get_callback_result", {RequestTimeout}),
     Site("_get_token_direct", {RequestTimeout}),
     Site("StackSpotWorkflowClient._get_access_token", {NoTimeout}),
     Site("execute_quick_command_via_workflow", {NoTimeout}),
     Site("poll_workflow_result", {NoTimeout})}

InitRemote ==
    /\ in_flight = "none"
    /\ wait_limit = NoTimeout
    /\ waited = 0
    /\ call_outcome = "none"

\* the request is sent
Send(call, limit) ==
    /\ in_flight = "none"
    /\ in_flight' = call
    /\ wait_limit' = limit
    /\ waited' = 0
    /\ call_outcome' = "none"
    /\ UNCHANGED outside_remote

SendRequest == \E site \in RemoteCalls : \E limit \in site.limits :
                   Send(site.call, limit)

\* the remote side answers
Respond ==
    /\ in_flight # "none"
    /\ in_flight' = "none"
    /\ call_outcome' = "response"
    /\ UNCHANGED <<wait_limit, waited>>
    /\ UNCHANGED outside_remote

\* one more second without an answer
Wait ==
    /\ in_flight # "none"
    /\ wait_limit = NoTimeout \/ waited < wait_limit
    /\ waited < MaxWait
    /\ waited' = waited + 1
    /\ UNCHANGED <<in_flight, wait_limit, call_outcome>>
    /\ UNCHANGED outside_remote

\* requests gives up: requests.exceptions.Timeout
GiveUp ==
    /\ in_flight # "none"
    /\ wait_limit # NoTimeout
    /\ waited >= wait_limit
    /\ in_flight' = "none"
    /\ call_outcome' = "Timeout"
    /\ UNCHANGED <<wait_limit, waited>>
    /\ UNCHANGED outside_remote

RemoteNext == SendRequest \/ Respond \/ Wait \/ GiveUp

(***************************************************************************)
(* RefactoringStep (application/steps/refactoring_step.py): execute over   *)
(* the paths of main-paths.txt.  A path is <<directory, file name>>.       *)
(***************************************************************************)
Directories == {"src/a", "src/b"}

FileNames == {"Foo.java", "Bar.java"}

Paths == Directories \X FileNames

\* Path(original_path).name
Name(path) == path[2]

\* the output file of _save_refactored_code (l.203-204): the prefix
\* refactored_ and the name of the original
OutputFile(original_path) == <<"refactored_", Name(original_path)>>

\* lists of distinct paths
PathLists ==
    {l \in UNION {[1..k -> Paths] : k \in 0..MaxPaths} :
        \A i, j \in 1..Len(l) : i # j => l[i] # l[j]}

\* what can happen to one file in _refactor_file: the file cannot be read,
\* the submission or the poll raises, or all goes well
RefactorOutcomes == {"read_raised", "submit_raised", "poll_raised", "ok"}

\* the dict returned by _refactor_file (l.101-114)
RefactorFile(file_path, outcome) ==
    IF outcome = "ok"
    THEN [original_file |-> file_path,
          refactored_file |-> OutputFile(file_path), success |-> TRUE]
    ELSE [original_file |-> file_path,
          refactored_file |-> <<"none", "none">>, success |-> FALSE]

NoOwner == <<"none", "none">>

OutputFiles == {OutputFile(path) : path \in Paths}

InitRefactor ==
    /\ rpc = "idle"
    /\ file_paths = <<>>
    /\ path_index = 0
    /\ refactored_files = <<>>
    /\ refactored_dir = [f \in OutputFiles |-> NoOwner]
    /\ overwritten = {}

\* execute starts: main-paths.txt is read (l.25-26)
Execute(paths) ==
    /\ rpc = "idle"
    /\ rpc' = "running"
    /\ file_paths' = paths
    /\ UNCHANGED <<path_index, refactored_files, refactored_dir, overwritten>>
    /\ UNCHANGED outside_refactor

ExecuteStep == \E paths \in PathLists : Execute(paths)

\* one turn of the loop of l.44-48: _refactor_file on the next path, its
\* refactored code saved when all went well
RefactorNext(outcome) ==
    /\ rpc = "running"
    /\ path_index < Len(file_paths)
    /\ LET file_path == file_paths[path_index + 1]
           entry == RefactorFile(file_path, outcome)
           output == OutputFile(file_path)
       IN  /\ path_index' = path_index + 1
           /\ refactored_files' = Append(refactored_files, entry)
           /\ refactored_dir' =
                 IF outcome = "ok"
                 THEN [refactored_dir EXCEPT ![output] = file_path]
                 ELSE refactored_dir
           /\ overwritten' =
                 IF outcome = "ok" /\ refactored_dir[output] # NoOwner
                 THEN overwritten \cup {refactored_dir[output]}
                 ELSE overwritten
    /\ UNCHANGED <<rpc, file_paths>>
    /\ UNCHANGED outside_refactor

RefactorFails ==
    \E outcome \in RefactorOutcomes \ {"ok"} : RefactorNext(outcome)

RefactorSucceeds == RefactorNext("ok")

\* refactor-result.json is written and the StepResult returned (l.50-63)
ExecuteReturns ==
    /\ rpc = "running"
    /\ path_index = Len(file_paths)
    /\ rpc' = "done"
    /\ UNCHANGED <<file_paths, path_index, refactored_files, refactored_dir,
                   overwritten>>
    /\ UNCHANGED outside_refactor

RefactoringNext ==
    \/ ExecuteStep
    \/ RefactorFails
    \/ RefactorSucceeds
    \/ ExecuteReturns

(***************************************************************************)
(* Specifications.                                                         *)
(***************************************************************************)
(* The text of the report of generate_summary_report (l.299-487): the      *)
(* sections in the order in which the code appends them to lines, and the  *)
(* time that the footer prints (l.483).                                    *)
(***************************************************************************)
SectionOf(kind) ==
    CASE kind = "analysis" -> "RESUMO DA ANALISE"
      [] kind = "plan"     -> "PLANO DE MODERNIZACAO"
      [] kind = "refactor" -> "REFATORACAO"
      [] kind = "metrics"  -> "METRICAS"

\* the sections of the steps extracted, in the order of l.330, l.385,
\* l.414, l.441: a record is built, and its section rendered, for each
\* result key present
StepSections(step_results) ==
    LET order == <<"analysis", "plan", "refactor", "metrics">>
        present == SelectSeq(order, LAMBDA kind : kind \in DictKeys(step_results))
    IN  [i \in 1..Len(present) |-> SectionOf(present[i])]

ReportText(raw, clock) ==
    IF ~raw.loaded
    THEN [sections |-> <<"No callback result loaded">>, generated |-> 0]  \* l.279
    ELSE [sections |-> <<"MODERN JAZZ", "INFORMACOES DA EXECUCAO">>
                       \o StepSections(ExtractStepResults(raw).value)
                       \o <<"Relatorio gerado em">>,
          generated |-> clock]                                            \* l.483

InitReport ==
    /\ reports = <<>>
    /\ wall_clock = 0

\* a call of generate_summary_report that returns
RenderReport ==
    /\ load_calls > 0
    /\ Len(reports) < MaxRenderings
    /\ GenerateSummaryReport(raw_result).kind = "return"
    /\ reports' = Append(reports, ReportText(raw_result, wall_clock))
    /\ UNCHANGED wall_clock
    /\ UNCHANGED outside_report

\* a second passes
Tick ==
    /\ wall_clock < MaxSeconds
    /\ wall_clock' = wall_clock + 1
    /\ UNCHANGED reports
    /\ UNCHANGED outside_report

ReportNext ==
    \/ LoadCallback
    \/ LoadMissingFile
    \/ RenderReport
    \/ Tick

(***************************************************************************)
(* StackSpotWorkflowClient.poll_workflow_result                            *)
(* (infrastructure/stackspot_workflow_client.py l.78-114).  A response is  *)
(* an exception of requests.get, or a status code and, for a 2xx, the      *)
(* status of the execution and whether its outputs hold an answer.         *)
(***************************************************************************)
WorkflowResp(exc, code, status, outputs) ==
    [exception |-> exc, status_code |-> code, status |-> status,
     outputs |-> outputs]

WorkflowResponses ==
    {WorkflowResp(e, 0, "-", "-") : e \in {"ConnectionError", "Timeout"}}
    \cup {WorkflowResp("none", c, "-", "-") : c \in {404, 500}}
    \cup {WorkflowResp("none", 200, st, "-") : st \in TransientStatuses}
    \cup {WorkflowResp("none", 200, "COMPLETED", o) : o \in {"answer", "empty"}}
    \cup {WorkflowResp("none", 200, st, "-") : st \in {"FAILED", "CANCELLED"}}

\* l.95-112: one iteration of the loop; nothing in it catches
WorkflowAttempt(resp) ==
    IF resp.exception # "none" THEN Raises(resp.exception)          \* l.95
    ELSE IF resp.status_code >= 400 THEN Raises("HTTPError")         \* l.96
    ELSE IF resp.status = "COMPLETED"
    THEN IF resp.outputs = "answer" THEN Returns(<<"answer">>)       \* l.106
         ELSE Raises("ValueError")                                   \* l.124
    ELSE IF resp.status \in {"FAILED", "CANCELLED"}
    THEN Raises("Exception")                                         \* l.110
    ELSE Passes                                                      \* l.112

InitWorkflow ==
    /\ wpc = "idle"
    /\ workflow_history = <<>>
    /\ workflow_error = "none"

\* l.86-92: the call up to the first test of the while condition
PollWorkflowResult ==
    /\ wpc = "idle"
    /\ wpc' = "loop"
    /\ UNCHANGED <<workflow_history, workflow_error>>
    /\ UNCHANGED outside_workflow

WorkflowStep(resp) ==
    /\ wpc = "loop"
    /\ Len(workflow_history) < MaxAttempts
    /\ workflow_history' = Append(workflow_history, resp)
    /\ LET o == WorkflowAttempt(resp)
       IN  /\ wpc' = CASE o.kind = "return" -> "returned"
                        [] o.kind = "raise"  -> "raised"
                        [] OTHER             -> "loop"
           /\ workflow_error' = o.exception
    /\ UNCHANGED outside_workflow

WorkflowPending ==
    \E resp \in WorkflowResponses :
        WorkflowAttempt(resp).kind = "pass" /\ WorkflowStep(resp)

WorkflowCompleted ==
    \E resp \in WorkflowResponses :
        WorkflowAttempt(resp).kind = "return" /\ WorkflowStep(resp)

WorkflowRaises ==
    \E resp \in WorkflowResponses :
        WorkflowAttempt(resp).kind = "raise" /\ WorkflowStep(resp)

\* l.94, l.114: the deadline has passed
WorkflowTimeout ==
    /\ wpc = "loop"
    /\ workflow_history # <<>>
    /\ wpc' = "raised"
    /\ workflow_error' = "TimeoutError"
    /\ UNCHANGED workflow_history
    /\ UNCHANGED outside_workflow

WorkflowNext ==
    \/ PollWorkflowResult
    \/ WorkflowPending
    \/ WorkflowCompleted
    \/ WorkflowRaises
    \/ WorkflowTimeout

(***************************************************************************)
(* One submit-then-poll cycle, as ModernizationService.modernize_file      *)
(* (l.36-58) and ProcessingStep.execute (l.27-51) run it: one call of      *)
(* execute_quick_command, then one call of poll_execution_result with the  *)
(* id it returned.  The loop of poll_execution_result is the one above,    *)
(* seen here with the URL it queries.                                      *)
(***************************************************************************)
\* the ids create_execution may hand out
ExecutionIds == {"exec_a", "exec_b"}

\* stackspot_client.py l.108: the callback URL of an execution
ApiUrl(id) == <<"quick-commands/callback", id>>

InitCycle ==
    /\ cpc = "idle"
    /\ cycles = 0
    /\ execution_id = "none"
    /\ api_url = ApiUrl("none")
    /\ submissions = <<>>
    /\ queried = <<>>
    /\ cycle_history = <<>>
    /\ cycle_outcome = "none"

\* execute_quick_command returns id and poll_execution_result is entered
\* with it (service l.38-52, client l.98-117)
Submit(id) ==
    /\ cpc = "idle"
    /\ cycles < MaxCycles
    /\ cycles' = cycles + 1
    /\ submissions' = <<id>>
    /\ execution_id' = id
    /\ api_url' = ApiUrl(id)
    /\ queried' = <<>>
    /\ cycle_history' = <<>>
    /\ cycle_outcome' = "none"
    /\ cpc' = "polling"
    /\ UNCHANGED outside_cycle

SubmitUnit == \E id \in ExecutionIds : Submit(id)

\* execute_quick_command raises: the caller returns its failure and never
\* polls (service l.42-46, processing_step l.48-51)
SubmitRaises ==
    /\ cpc = "idle"
    /\ cycles < MaxCycles
    /\ cycles' = cycles + 1
    /\ submissions' = <<>>
    /\ execution_id' = "none"
    /\ api_url' = ApiUrl("none")
    /\ queried' = <<>>
    /\ cycle_history' = <<>>
    /\ cycle_outcome' = "submit_raised"
    /\ cpc' = "done"
    /\ UNCHANGED outside_cycle

\* CycleAttempt with a 404 answered by submitting the unit again
CycleAttempt_Resubmitting(resp) ==
    /\ cpc = "polling"
    /\ Len(queried) < MaxAttempts
    /\ queried' = Append(queried, api_url)
    /\ cycle_history' = Append(cycle_history, Class(resp))
    /\ LET o == TryStatement(resp, "none", "ok", "ValueError")
           again == resp.status_code = 404
           id == CHOOSE id \in ExecutionIds : id # execution_id
       IN  /\ cpc' = IF o.kind = "fall" THEN "polling" ELSE "done"
           /\ cycle_outcome' = IF o.kind = "fall" THEN cycle_outcome
                                ELSE IF o.kind = "return" THEN "returned"
                                ELSE o.exc
           /\ submissions' = IF again THEN Append(submissions, id)
                              ELSE submissions
           /\ execution_id' = IF again THEN id ELSE execution_id
           /\ api_url' = IF again THEN ApiUrl(id) ELSE api_url
    /\ UNCHANGED cycles
    /\ UNCHANGED outside_cycle

\* one iteration of the loop of poll_execution_result (client l.119-155):
\* requests.get(api_url, ...) and the try statement around it
CycleAttempt(resp) ==
    /\ cpc = "polling"
    /\ Len(queried) < MaxAttempts
    /\ queried' = Append(queried, api_url)                           \* l.123
    /\ cycle_history' = Append(cycle_history, Class(resp))
    /\ LET o == TryStatement(resp, "none", "ok", "ValueError")
       IN  /\ cpc' = IF o.kind = "fall" THEN "polling" ELSE "done"
           /\ cycle_outcome' = IF o.kind = "fall" THEN cycle_outcome
                                ELSE IF o.kind = "return" THEN "returned"
                                ELSE o.exc
    /\ UNCHANGED <<cycles, execution_id, api_url, submissions>>
    /\ UNCHANGED outside_cycle

CycleContinues ==
    \E resp \in Responses :
        /\ TryStatement(resp, "none", "ok", "ValueError").kind = "fall"
        /\ CycleAttempt(resp)

CycleEnds ==
    \E resp \in Responses :
        /\ TryStatement(resp, "none", "ok", "ValueError").kind # "fall"
        /\ CycleAttempt(resp)

\* the deadline of the loop has passed (client l.119, l.157); the caller
\* turns the exception into its failure (service l.53-58)
CycleTimeout ==
    /\ cpc = "polling"
    /\ queried # <<>>
    /\ cpc' = "done"
    /\ cycle_outcome' = "RQCExecutionTimeoutError"
    /\ UNCHANGED <<cycles, execution_id, api_url, submissions, queried,
                   cycle_history>>
    /\ UNCHANGED outside_cycle

\* the caller goes on to its next unit
NextUnit ==
    /\ cpc = "done"
    /\ cycles < MaxCycles
    /\ cpc' = "idle"
    /\ UNCHANGED <<cycles, execution_id, api_url, submissions, queried,
                   cycle_history, cycle_outcome>>
    /\ UNCHANGED outside_cycle

CycleNext ==
    \/ SubmitUnit
    \/ SubmitRaises
    \/ CycleContinues
    \/ CycleEnds
    \/ CycleTimeout
    \/ NextUnit

(***************************************************************************)
(* ExecutionOrchestrator (application/orchestrator.py): the steps it runs  *)
(* and the ExecutionResult it fills.  A step is seen by the StepResult its *)
(* execute returns; every execute of application/steps catches Exception   *)
(* and returns a failed StepResult with a message.                         *)
(***************************************************************************)
\* domain/enums/execution_mode.py
ExecutionModes == {"DEVELOPMENT", "PRODUCTION"}

\* orchestrator.py l.21: dev_execution_id is Optional, None by default
DevExecutionIds == {"none"} \cup ExecutionIds

\* domain/entities.py l.52-60
StepResult(ok, data, message) ==
    [success |-> ok, data |-> data, error |-> message]

\* domain/entities.py l.63-73: a fresh ExecutionResult
ExecutionResult ==
    [execution_id |-> "none", cloned_repo_path |-> "none",
     payload_file |-> "none", callback_file |-> "none",
     results_directory |-> "none", success |-> FALSE, error |-> "none"]

\* what execute of each step may return: data is the part of StepResult.data
\* the orchestrator reads
StepResults(step) ==
    CASE step = "clone" ->                                \* clone_step.py
           {StepResult(TRUE, "GIT_CLONE_TARGET", "none"),
            StepResult(FALSE, "none", "Failed to clone repository")}
      [] step = "collect" ->                              \* collection_step.py
           {StepResult(TRUE, "MAIN_PAYLOAD_FILE", "none"),
            StepResult(FALSE, "none", "Failed to collect files")}
      [] step = "process" ->                              \* processing_step.py
           {StepResult(TRUE, id, "none") : id \in ExecutionIds}
           \cup {StepResult(FALSE, "none", "Failed to process with StackSpot")}
      [] step = "callback" ->                             \* callback_step.py
           {StepResult(TRUE, "callback-result.json", "none"),
            StepResult(FALSE, "none", "Callback result not available"),
            StepResult(FALSE, "none", "Failed to fetch callback")}
      [] step = "result" ->                               \* result_step.py
           {StepResult(TRUE, "assets/results", "none"),
            StepResult(FALSE, "none", "Failed to load callback data"),
            StepResult(FALSE, "none", "Failed to process results")}

InitOrch ==
    /\ opc = "none"
    /\ orchestrators = 0
    /\ orch_mode = "PRODUCTION"
    /\ dev_execution_id = "none"
    /\ orch_result = ExecutionResult
    /\ executed = <<>>

\* l.21-24: __init__
NewOrchestrator(mode, id) ==
    /\ opc \in {"none", "returned", "raised"}
    /\ orchestrators < MaxOrchestrators
    /\ orchestrators' = orchestrators + 1
    /\ orch_mode' = mode
    /\ dev_execution_id' = id
    /\ orch_result' = ExecutionResult
    /\ executed' = <<>>
    /\ opc' = "constructed"
    /\ UNCHANGED outside_orch

\* l.26-35: execute chooses the flow of the mode
OrchestratorExecute ==
    /\ opc = "constructed"
    /\ opc' = IF orch_mode = "DEVELOPMENT" THEN "dev_callback" ELSE "clone"
    /\ UNCHANGED <<orchestrators, orch_mode, dev_execution_id, orch_result,
                   executed>>
    /\ UNCHANGED outside_orch

\* l.100-163: what every _execute_*_step does with the StepResult of its
\* step: on success its own field is set, else success and error
Recorded(field, r) ==
    IF r.success THEN [orch_result EXCEPT ![field] = r.data]
    ELSE [orch_result EXCEPT !.success = FALSE, !.error = r.error]

\* the data of the StepResult of the step before
PreviousData == executed[Len(executed)].outcome.data

Ran(step, arg, r) == Append(executed, [step |-> step, arg |-> arg, outcome |-> r])

\* l.68-70 and l.100-111
ExecuteCloneStep(r) ==
    /\ opc = "clone"
    /\ executed' = Ran("clone", "none", r)
    /\ orch_result' = Recorded("cloned_repo_path", r)
    /\ opc' = IF r.success THEN "collect" ELSE "returned"
    /\ UNCHANGED <<orchestrators, orch_mode, dev_execution_id>>
    /\ UNCHANGED outside_orch

\* the collection step going on to the next step whatever its result
ExecuteCollectionStep_GoingOn(r) ==
    /\ opc = "collect"
    /\ executed' = Ran("collect", PreviousData, r)
    /\ orch_result' = Recorded("payload_file", r)
    /\ opc' = "process"
    /\ UNCHANGED <<orchestrators, orch_mode, dev_execution_id>>
    /\ UNCHANGED outside_orch

\* l.73-75 and l.113-124: the argument is clone_result.data
ExecuteCollectionStep(r) ==
    /\ opc = "collect"
    /\ executed' = Ran("collect", PreviousData, r)
    /\ orch_result' = Recorded("payload_file", r)
    /\ opc' = IF r.success THEN "process" ELSE "returned"
    /\ UNCHANGED <<orchestrators, orch_mode, dev_execution_id>>
    /\ UNCHANGED outside_orch

\* l.78-80 and l.126-137: the argument is collection_result.data
ExecuteProcessingStep(r) ==
    /\ opc = "process"
    /\ executed' = Ran("process", PreviousData, r)
    /\ orch_result' = Recorded("execution_id", r)
    /\ opc' = IF r.success THEN "callback" ELSE "returned"
    /\ UNCHANGED <<orchestrators, orch_mode, dev_execution_id>>
    /\ UNCHANGED outside_orch

\* l.83-87 and l.139-150: the argument is processing_result.data's id
ExecuteCallbackStep(r) ==
    /\ opc = "callback"
    /\ executed' = Ran("callback", PreviousData, r)
    /\ orch_result' = Recorded("callback_file", r)
    /\ opc' = IF r.success THEN "result" ELSE "returned"
    /\ UNCHANGED <<orchestrators, orch_mode, dev_execution_id>>
    /\ UNCHANGED outside_orch

\* l.90-98 and l.152-163: the argument is callback_result.data's file;
\* success is assigned from the step, error only when it failed
ExecuteResultStep(r) ==
    /\ opc = "result"
    /\ executed' = Ran("result", PreviousData, r)
    /\ LET own == Recorded("results_directory", r)
           done == [own EXCEPT !.success = r.success]             \* l.94
       IN  orch_result' = IF r.success THEN done
                          ELSE [done EXCEPT !.error = r.error]    \* l.96
    /\ opc' = "returned"
    /\ UNCHANGED <<orchestrators, orch_mode, dev_execution_id>>
    /\ UNCHANGED outside_orch

\* l.42-51: the callback step of development mode, on dev_execution_id
ExecuteDevCallback(r) ==
    /\ opc = "dev_callback"
    /\ executed' = Ran("callback", dev_execution_id, r)
    /\ orch_result' =
          IF ~r.success
          THEN [orch_result EXCEPT !.success = FALSE,              \* l.46
                                   !.error = r.error]              \* l.47
          ELSE [orch_result EXCEPT !.execution_id = dev_execution_id,
                                   !.callback_file = r.data]       \* l.50-51
    /\ opc' = IF r.success THEN "dev_result" ELSE "returned"
    /\ UNCHANGED <<orchestrators, orch_mode, dev_execution_id>>
    /\ UNCHANGED outside_orch

\* l.54-63: the result step of development mode
ExecuteDevResult(r) ==
    /\ opc = "dev_result"
    /\ executed' = Ran("result", PreviousData, r)
    /\ orch_result' =
          IF r.success
          THEN [orch_result EXCEPT !.results_directory = r.data,   \* l.58
                                   !.success = TRUE]               \* l.59
          ELSE [orch_result EXCEPT !.error = r.error]              \* l.61
    /\ opc' = "returned"
    /\ UNCHANGED <<orchestrators, orch_mode, dev_execution_id>>
    /\ UNCHANGED outside_orch

\* l.42, l.128, l.141: ProcessingStep() and CallbackStep() build a
\* StackspotApiClient, whose _load_credentials raises outside any try when
\* the credentials file is missing: execute raises without returning
StepConstructorRaises ==
    /\ opc \in {"process", "callback", "dev_callback"}
    /\ opc' = "raised"
    /\ UNCHANGED <<orchestrators, orch_mode, dev_execution_id, orch_result,
                   executed>>
    /\ UNCHANGED outside_orch

OrchestratorNext ==
    \/ \E mode \in ExecutionModes, id \in DevExecutionIds :
          NewOrchestrator(mode, id)
    \/ OrchestratorExecute
    \/ \E r \in StepResults("clone") : ExecuteCloneStep(r)
    \/ \E r \in StepResults("collect") : ExecuteCollectionStep(r)
    \/ \E r \in StepResults("process") : ExecuteProcessingStep(r)
    \/ \E r \in StepResults("callback") : ExecuteCallbackStep(r)
    \/ \E r \in StepResults("result") : ExecuteResultStep(r)
    \/ \E r \in StepResults("callback") : ExecuteDevCallback(r)
    \/ \E r \in StepResults("result") : ExecuteDevResult(r)
    \/ StepConstructorRaises

(***************************************************************************)
Init ==
    /\ InitPoll
    /\ InitBatch
    /\ InitParser
    /\ InitProcessor
    /\ InitDisk
    /\ InitRemote
    /\ InitRefactor
    /\ InitCycle
    /\ InitReport
    /\ InitWorkflow
    /\ InitOrch

\* a poll with the shortest deadline and no observer
ShortPoll == Call(1, 1, "none")

ClientNext ==
    \/ FetchCallback
    \/ ShortPoll
    \/ \E r \in Responses, d \in RequestTimes : PollStep(r, d, "ok")
    \/ PollTimeout

\* one call of poll_execution_result on a client instance
SpecPoll == Init /\ [][PollNext]_vars

\* one client instance: get_callback_result calls around one short call of
\* poll_execution_result
InitClient == Init /\ now = 0

SpecClient == InitClient /\ [][ClientNext]_vars

\* the same with the loop never abandoned half way: the thread that runs
\* poll_execution_result keeps running and every requests.get returns
FairSpecPoll == SpecPoll /\ WF_vars(PollNext)

\* one ModernizationService instance
InitService == Init /\ client = TRUE /\ json_error = "ValueError" /\ now = 0

SpecBatch == InitService /\ [][BatchNext]_vars

\* one StackSpotResultProcessor, used either on one answer or on one loaded
\* callback
SpecProcessor == InitService /\ [][ProcessorNext]_vars

\* the persisting functions run one after the other, cancelled at any point
SpecDisk == InitService /\ [][DiskNext]_vars

\* one remote call after the other; the remote side may stay silent, the
\* local side keeps running and its clock keeps ticking
SpecRemote == InitService /\ [][RemoteNext]_vars

FairSpecRemote == SpecRemote /\ WF_vars(Wait) /\ WF_vars(GiveUp)

\* one call of RefactoringStep.execute
SpecRefactoring == InitService /\ [][RefactoringNext]_vars

\* one StackSpotResultProcessor parsing one answer that direct parsing
\* cannot settle
SpecFallback == InitService /\ [][FallbackNext]_vars

\* one StackSpotResultProcessor rendering the report of its callback
SpecReport == InitService /\ [][ReportNext]_vars

\* one call of poll_workflow_result
SpecWorkflow == InitService /\ [][WorkflowNext]_vars

\* one caller submitting and polling its units one after the other
SpecCycle == InitService /\ [][CycleNext]_vars

\* orchestrator instances, each executed once
SpecOrchestrator == InitService /\ [][OrchestratorNext]_vars

(***************************************************************************)
(* Properties of poll_execution_result.                                    *)
(***************************************************************************)
Last(seq) == seq[Len(seq)]

Elapsed == now - start_time

Polled == history # <<>>

TimedOut == pc = "raised" /\ error.type = "RQCExecutionTimeoutError"

\* C1: a 404 on a poll attempt never ends the call (after it the loop is
\* still running, or has ended by the timeout), and a COMPLETED response
\* that follows nothing but 404s makes the call return the payload of that
\* response with nothing raised.
C1_NotFoundIsPending ==
    /\ (Polled /\ Last(history) = "404")
          => (pc = "loop" \/ (TimedOut /\ ~DeadlineOpen))
    /\ (Polled /\ Last(history) = "COMPLETED"
        /\ \A i \in 1..(Len(history) - 1) : history[i] = "404")
          => (/\ pc = "returned"
              /\ result = last_response.payload
              /\ result \in Payloads
              /\ error = NoError)

\* two 404s, then COMPLETED on the third attempt, returned
C1_Witness ==
    /\ history = <<"404", "404", "COMPLETED">>
    /\ pc = "returned"
    /\ result = "payload_b"

\* C2: a network or timeout error of requests.get on a poll attempt does
\* not leave poll_execution_result: the step that meets it goes back to
\* the while test after sleeping polling_delay, and a call whose last
\* attempt met such an error can only end by the timeout, once the
\* deadline has elapsed.
C2_NetworkErrorSwallowed ==
    /\ [][(pc = "loop" /\ history' # history
           /\ Last(history') = "network_error")
             => (/\ pc' = "loop"
                 /\ error' = NoError
                 /\ attempts' = attempts + 1
                 /\ now' = now + request_time' + polling_delay)]_vars
    /\ []((Polled /\ Last(history) = "network_error")
             => (pc = "loop" \/ (TimedOut /\ ~DeadlineOpen)))

\* an attempt made after a network error, itself a network error
C2_Witness ==
    /\ Len(history) = 3
    /\ history[1] = "network_error"
    /\ history[2] = "network_error"
    /\ last_response.exception = "Timeout"
    /\ pc = "loop"

\* the responses after which the loop goes on: no terminal status was
\* reported and the body, if any, could be read
TransientClasses ==
    {"404", "auth_failure", "server_error", "network_error", "in_progress"}

NeverTerminal == \A i \in 1..Len(history) : history[i] \in TransientClasses

C4_RemoteFailureRaised ==
    (Polled /\ Last(history) \in {"FAILED", "CANCELLED"})
       => (/\ pc = "raised"
           /\ error.type = "StackspotApiError"
           /\ error.message =
                 <<"Execution", last_response.status,
                   IF last_response.error = "absent" THEN "Unknown error"
                   ELSE last_response.error>>
           /\ attempts = Len(history)
           /\ ~IsSubclass(error.type, "RQCExecutionTimeoutError")
           /\ ~IsSubclass("RQCExecutionTimeoutError", error.type))

\* CANCELLED with a remote message, on the second attempt
C4_Witness ==
    /\ pc = "raised"
    /\ Len(history) = 2
    /\ last_response.status = "CANCELLED"
    /\ last_response.error = "boom"
    /\ error.message = <<"Execution", "CANCELLED", "boom">>

\* C5 as stated: an attempt of poll_execution_result, or a call of
\* get_callback_result, that receives 401 or 403 acquires the credential
\* once more (before retrying).
C5_ReacquiredOnAuthFailure ==
    [][/\ (pc = "loop" /\ history' # history
           /\ Last(history') = "auth_failure")
             => acquisitions' = acquisitions + 1
       /\ (fetches' # fetches /\ fetch_code' \in {401, 403})
             => acquisitions' = acquisitions + FetchAcquisitions + 1]_vars

\* C6 as stated: after the observer has raised, the call is still polling
\* or has ended in one of its three regular ways.
C6_ObserverFailureDoesNotAbort ==
    callback_raised # "none"
       => \/ pc = "loop"
          \/ pc = "returned"
          \/ (pc = "raised" /\ error.type = "StackspotApiError"
              /\ Last(history) \in {"FAILED", "CANCELLED"})
          \/ TimedOut

\* attempts that found a 200 whose progress.status is not terminal
ProgressAttempts ==
    Cardinality({i \in 1..Len(history) : history[i] = "in_progress"})

\* C7 as stated: with an observer, as many invocations as attempts.
C7_ObserverOncePerAttempt ==
    status_callback = "observer" => callbacks = attempts

\* C7 as amended: the observer is invoked once on every attempt that found
\* a 200 with a readable body whose progress.status is not COMPLETED,
\* FAILED or CANCELLED, and on no other attempt; so never more often than
\* once per attempt, and not at all when none is supplied.
C7_ObserverOnProgressOnly ==
    /\ callbacks = IF status_callback = "observer" THEN ProgressAttempts ELSE 0
    /\ callbacks <= attempts
    /\ attempts = Len(history)

\* three attempts, two of them reported to the observer
C7_Witness ==
    /\ status_callback = "observer"
    /\ history = <<"in_progress", "404", "in_progress">>
    /\ attempts = 3
    /\ callbacks = 2

\* C8 as stated: once an attempt has been made, the call ends by
\* returning on COMPLETED, by StackspotApiError on FAILED/CANCELLED or by
\* the timeout, whatever else was received (the observer left aside).
C8_ThreeEndings ==
    (pc \in {"returned", "raised"} /\ Polled /\ callback_raised = "none")
       => \/ (pc = "returned" /\ Last(history) = "COMPLETED")
          \/ (pc = "raised" /\ error.type = "StackspotApiError"
              /\ Last(history) \in {"FAILED", "CANCELLED"})
          \/ TimedOut

(***************************************************************************)
(* Properties of ModernizationService.                                     *)
(***************************************************************************)
\* the results appended since the run started
RunResults == SubSeq(results, run_start + 1, Len(results))

Successes(res) == Cardinality({i \in 1..Len(res) : res[i].is_successful})

\* exactly file k failed, at submission, and every other file went through
OnlySubmitFailure(k) ==
    /\ fates[k] = "submit_raised"
    /\ \A j \in 1..Len(fates) : j # k => fates[j] = "ok"

\* C9: a run over N files always reaches the end of the list, and when
\* exactly file k failed at submission it reports N processed, N-1
\* successful and 1 failed, with one result appended per file in order, the
\* one of file k being the only failed one and carrying its path.
C9_OneFailureDoesNotAbort ==
    bpc = "done"
       => /\ Len(fates) = total_files
          /\ \A k \in 1..total_files :
                OnlySubmitFailure(k)
                   => /\ stats.processed = total_files
                      /\ stats.successful = total_files - 1
                      /\ stats.failed = 1
                      /\ Len(RunResults) = total_files
                      /\ \A j \in 1..total_files :
                            /\ RunResults[j].file_path = j
                            /\ RunResults[j].is_successful = (j # k)

\* three files, the second fails at submission
C9_Witness ==
    /\ bpc = "done"
    /\ total_files = 3
    /\ Len(fates) = 3
    /\ OnlySubmitFailure(2)
    /\ stats.successful = 2
    /\ stats.failed = 1

\* C10: when modernize_all_files has returned, processed = successful +
\* failed = files not skipped = results appended during the run, successful
\* counts the successful ones among them, the success rate is "0%" when
\* nothing was processed and successful / processed otherwise, and the
\* summary of ReportGenerator over all results has total = successful +
\* failed = number of results.
C10_CountsConsistent ==
    bpc = "done"
       => /\ stats.processed = stats.successful + stats.failed
          /\ stats.processed = Len(RunResults)
          /\ stats.processed =
                Cardinality({i \in 1..Len(fates) : fates[i] # "skipped"})
          /\ stats.successful = Successes(RunResults)
          /\ stats.success_rate =
                IF stats.processed = 0 THEN <<"0%">>
                ELSE <<"%", Percent(stats.successful, stats.processed)>>
          /\ LET summary == GenerateSummary(results)
             IN /\ summary.total_files = Len(results)
                /\ summary.total_files = summary.successful + summary.failed
                /\ summary.successful = Successes(results)
                /\ (summary.total_files = 0) = (summary.success_rate = <<"0%">>)

\* a run that skipped a file, after an earlier direct call
C10_Witness ==
    /\ bpc = "done"
    /\ run_start = 1
    /\ total_files = 3
    /\ stats.processed = 2
    /\ stats.successful = 1
    /\ stats.success_rate = <<"%", 5000>>

(***************************************************************************)
(* Properties of the answer parser and of the mappers.                     *)
(***************************************************************************)
\* what each strategy does with an answer, in the order of the source
Outcomes(a) == <<Direct(a), Fenced(a), Boundary(a)>>

Winners(a) == {k \in 1..3 : Outcomes(a)[k].kind = "return"}

DirectlyParseable(a) == a.type = "str" /\ IsValue(Canonical(Strip(a.text)))

\* C11: an answer that is, once trimmed, structured text and nothing else
\* yields the parse of the whole text, with the direct strategy alone
\* evaluated; for every usable answer the strategies are evaluated in the
\* order direct, fenced, boundary up to the first that parses, whose value
\* is the result, and all three are evaluated when none parses.
C11_DirectParseFirst ==
    (parse_calls > 0 /\ ~Unusable(answer)) =>
        /\ DirectlyParseable(answer) =>
              /\ parsed.kind = "return"
              /\ parsed.value = Canonical(answer.text)
              /\ parsed.evaluated = <<"direct">>
        /\ IF Winners(answer) = {}
           THEN parsed.evaluated = Strategies
           ELSE /\ parsed.evaluated =
                       SubSeq(Strategies, 1, Least(Winners(answer)))
                /\ parsed.value =
                       Outcomes(answer)[Least(Winners(answer))].value

C11_Witness ==
    /\ parse_calls > 0
    /\ answer = Str(<<"n", "{", "m", "}">>)
    /\ parsed.value = <<"{", "m", "}">>
    /\ parsed.evaluated = <<"direct">>

\* C12: for prose, then a json-tagged fenced block around a structured
\* document, then prose, the payload is exactly that document.
C12_FencedBlockExtracted ==
    interior # NoInterior =>
        /\ parsed.kind = "return"
        /\ parsed.value = Canonical(interior)

C12_Witness ==
    /\ interior = <<"{", "m", "}">>
    /\ answer = Str(<<"p", "n", "f", "j", "n", "{", "m", "}", "n", "f",
                      "n", "p">>)
    /\ parsed.value = <<"{", "m", "}">>

Shape(value) ==
    CASE value \in {"''", "'none'"} -> "str"
      [] value \in {"[]", "[x]"}    -> "list"
      [] value \in {"{}", "{x}"}    -> "dict"
      [] value = "False"            -> "bool"
      [] OTHER                      -> "NoneType"

\* the callback without its i-th step
WithoutStep(raw, i) ==
    Callback(SubSeq(raw.steps, 1, i - 1)
             \o SubSeq(raw.steps, i + 1, Len(raw.steps)))

\* an answer that is there and that no strategy parses
Unparseable(a) == a.truthy /\ Winners(a) = {}

\* C14 as stated: what extract_step_results returns for a callback with a
\* step whose answer could not be parsed differs from what it returns for
\* the same callback without that step.
C14_UnparseableDistinctFromAbsent ==
    extract_calls > 0 =>
        \A i \in 1..Len(callback_file.steps) :
            LET step == callback_file.steps[i]
            IN  (StepMapping(step.step_name) # "None"
                 /\ Unparseable(step.answer)) =>
                    extracted #
                        ExtractStepResults(WithoutStep(callback_file, i)).value

\* C15 as stated: whatever payload the parser returned, each mapper returns
\* a record, and each field of it has the declared shape (it holds a value
\* of that shape or its default).
C15_MapperNeverRaises ==
    records # NotMapped =>
        \A kind \in Kinds :
            /\ records[kind].kind = "return"
            /\ \A name \in DOMAIN Defaults(kind) :
                  Shape(records[kind].fields[name]) =
                      Shape(Defaults(kind)[name])

C17_WritesIndependentlyGuarded ==
    (save_calls > 0 /\ callback_file.loaded) =>
        /\ saving.raised = "none"
        /\ saving.attempted = Artifacts(callback_file)
        /\ saving.saved =
              Artifacts(callback_file)
              \ (failing
                 \cup IF GenerateSummaryReport(callback_file).kind = "raise"
                      THEN {"report"} ELSE {})

C17_Witness ==
    /\ save_calls > 0
    /\ failing = {"analysis"}
    /\ saving.attempted = {"analysis", "plan", "report"}
    /\ saving.saved = {"plan", "report"}
    /\ saving.raised = "none"

(***************************************************************************)
(* Properties of the persisted files, the remote calls and the refactor    *)
(* step.                                                                   *)
(***************************************************************************)
\* C18 as stated: when the run is cancelled while artifacts are persisted,
\* every file holds a whole version, the previous one or the new one.
C18_ArtifactsReplacedAtomically ==
    interrupted => \A f \in PersistedFiles : Complete(disk[f])

\* C19 as stated: every remote call that is waiting ends, by an answer or
\* by its timeout, even when the remote side never answers.
C19_EveryRemoteCallEnds == (in_flight # "none") ~> (in_flight = "none")

\* C20 as stated: execute records one entry per input path, in the name of
\* that path, and no two input paths are saved to the same refactored file
\* (no unit's output is replaced by another's).
C20_OutputsAttributedByPath ==
    rpc = "done" =>
        /\ Len(refactored_files) = Len(file_paths)
        /\ \A i \in 1..Len(file_paths) :
              refactored_files[i].original_file = file_paths[i]
        /\ \A i, j \in 1..Len(refactored_files) :
              (i # j /\ refactored_files[i].success
                     /\ refactored_files[j].success) =>
                  refactored_files[i].refactored_file #
                      refactored_files[j].refactored_file
        /\ overwritten = {}

(***************************************************************************)
(* C21: self.results is append-only and gains exactly one entry per call   *)
(* of modernize_file: a step changes results only by appending one record, *)
(* it does so exactly when a file was processed (in the run or by a direct *)
(* call), the earlier entries stay as they were, and the record appended   *)
(* in a run is successful if and only if submit, poll and (when            *)
(* save_changes is set) the save all went through.                         *)
(***************************************************************************)
C21_ResultsAppendOnly ==
    [][/\ Len(results') \in {Len(results), Len(results) + 1}
       /\ SubSeq(results', 1, Len(results)) = results
       /\ (Len(results') = Len(results) + 1)
             <=> (processed' = processed + 1 \/ direct_calls' = direct_calls + 1)
       /\ (processed' = processed + 1)
             => /\ Last(results').file_path = index'
                /\ Last(results').is_successful <=> (Last(fates') = "ok")]_vars

\* a run has appended a failure of each kind and a success after one
\* direct call
C21_Witness ==
    /\ direct_calls = 1
    /\ bpc = "done"
    /\ Len(RunResults) = 3
    /\ \E i, j, k \in 1..Len(fates) :
          /\ fates[i] = "save_raised"
          /\ fates[j] = "poll_empty"
          /\ fates[k] = "ok"

(***************************************************************************)
(* C22: within one submit-then-poll cycle the unit is submitted exactly    *)
(* once and every poll attempt queries the URL of the execution id that    *)
(* this submission returned, whatever the attempts before it produced;     *)
(* the caller's execution_id stays that id to the end of the cycle.        *)
(***************************************************************************)
C22_HandleStable ==
    /\ Len(submissions) <= 1
    /\ cpc = "polling" => Len(submissions) = 1
    /\ queried # <<>> => Len(submissions) = 1
    /\ submissions # <<>> =>
          /\ execution_id = submissions[1]
          /\ \A i \in 1..Len(queried) : queried[i] = ApiUrl(submissions[1])

\* a cycle that saw a 404, a network error and another status, and then
\* ran into the deadline
C22_Witness ==
    /\ cpc = "done"
    /\ cycle_outcome = "RQCExecutionTimeoutError"
    /\ Len(queried) = 3
    /\ {cycle_history[i] : i \in 1..3} = {"404", "network_error", "server_error"}

(***************************************************************************)
(* C23: the boundary scan takes the first of "{" and "[" in the text as    *)
(* the opening and the last closing of the same kind, and parses the text  *)
(* from the one to the other inclusive; with no opening, no closing of     *)
(* that kind, or a substring that does not parse, the strategy fails, its  *)
(* exception is caught, and a call that got as far as the scan returns    *)
(* the scanned value or the empty payload.                                 *)
(***************************************************************************)
Openings(s) == Positions(s, "{") \cup Positions(s, "[")

ClosingOf(token) == IF token = "{" THEN "}" ELSE "]"

\* the text from the first opening to the last closing of its kind
Scanned(s) ==
    SubSeq(s, Least(Openings(s)),
           Greatest(Positions(s, ClosingOf(s[Least(Openings(s))]))))

Scannable(s) ==
    /\ Openings(s) # {}
    /\ Positions(s, ClosingOf(s[Least(Openings(s))])) # {}
    /\ IsValue(Canonical(Scanned(s)))

C23_BoundaryScan ==
    (parse_calls > 0 /\ answer.type = "str") =>
        LET o == Boundary(answer)
        IN  /\ IF Scannable(answer.text)
               THEN o = Returns(Canonical(Scanned(answer.text)))
               ELSE \/ o.kind = "pass"
                    \/ o.kind = "raise" /\ StrategyCaught(3, o.exception)
            /\ parsed.evaluated = Strategies =>
                  /\ parsed.kind = "return"
                  /\ parsed.value = IF Scannable(answer.text)
                                    THEN Canonical(Scanned(answer.text))
                                    ELSE EmptyPayload

\* an array, then an opening brace and prose: the bracket comes first, and
\* the scan yields the array
C23_Witness ==
    /\ parse_calls > 0
    /\ answer = Str(<<"[", "]", "{", "p">>)
    /\ parsed.evaluated = Strategies
    /\ parsed.value = <<"[", "]">>

(***************************************************************************)
(* The fenced blocks of a text, read off its fences two by two: whether    *)
(* the opening fence carries the json tag, and the trimmed interior.       *)
(***************************************************************************)
NthFence(s, k) ==
    CHOOSE q \in Positions(s, "f") :
        Cardinality({r \in Positions(s, "f") : r < q}) = k - 1

BlockCount(s) == Cardinality(Positions(s, "f")) \div 2

BlockTagged(s, k) == s[NthFence(s, 2 * k - 1) + 1] = "j"

BlockInterior(s, k) ==
    Strip(SubSeq(s, NthFence(s, 2 * k - 1)
                      + (IF BlockTagged(s, k) THEN 2 ELSE 1),
                 NthFence(s, 2 * k) - 1))

BlockParses(s, k) == IsValue(Canonical(BlockInterior(s, k)))

TaggedBlocks(s) == {k \in 1..BlockCount(s) : BlockTagged(s, k)}

UntaggedBlocks(s) == {k \in 1..BlockCount(s) : ~BlockTagged(s, k)}

\* a text whose fences pair up into blocks and that is not structured text
\* as a whole
HasBlocks(a) ==
    /\ a.type = "str"
    /\ Positions(a.text, "f") # {}
    /\ Cardinality(Positions(a.text, "f")) % 2 = 0
    /\ ~DirectlyParseable(a)

(***************************************************************************)
(* C24: when the first json-tagged block of the text parses, its interior  *)
(* is the payload, wherever the untagged blocks are; when there is no      *)
(* json-tagged block, or the first one does not parse, and the text has    *)
(* untagged blocks that all parse, the payload is the interior of one of   *)
(* them.                                                                   *)
(***************************************************************************)
C24_TaggedPreferred ==
    (parse_calls > 0 /\ HasBlocks(answer)) =>
        LET s == answer.text
            T == TaggedBlocks(s)
            U == UntaggedBlocks(s)
        IN  IF T # {} /\ BlockParses(s, Least(T))
            THEN parsed.value = Canonical(BlockInterior(s, Least(T)))
            ELSE (U # {} /\ \A k \in U : BlockParses(s, k)) =>
                   parsed.value \in {Canonical(BlockInterior(s, k)) : k \in U}

(***************************************************************************)
(* C30: a fenced block that does not parse never ends the extraction: a    *)
(* call in which every strategy failed, and which therefore returned the   *)
(* empty payload, had no fenced pattern whose match parses and no          *)
(* boundary-scan substring that parses.                                    *)
(***************************************************************************)
PatternParses(s, k) ==
    /\ Search(s, patterns[k]).found
    /\ IsValue(Canonical(Strip(Search(s, patterns[k]).group)))

C30_FencedFailureGoesOn ==
    (parse_calls > 0 /\ ~Unusable(answer)
       /\ Winners(answer) = {} /\ parsed.value = EmptyPayload) =>
        /\ \A k \in 1..Len(patterns) : ~PatternParses(answer.text, k)
        /\ ~Scannable(answer.text)

(***************************************************************************)
(* C25: the report is deterministic and ordered: its sections come in the  *)
(* order execution metadata, analysis, plan, refactor, metrics whatever    *)
(* the order of the steps in the callback, and two renderings of the same  *)
(* loaded callback are the same text.                                      *)
(***************************************************************************)
SectionOrder ==
    <<"MODERN JAZZ", "INFORMACOES DA EXECUCAO", "RESUMO DA ANALISE",
      "PLANO DE MODERNIZACAO", "REFATORACAO", "METRICAS",
      "Relatorio gerado em">>

Rank(section) == CHOOSE i \in 1..Len(SectionOrder) : SectionOrder[i] = section

Ordered(sections) ==
    \A i, j \in 1..Len(sections) :
        i < j => Rank(sections[i]) < Rank(sections[j])

C25_ReportDeterministic ==
    \A i, j \in 1..Len(reports) :
        /\ raw_result.loaded => Ordered(reports[i].sections)
        /\ reports[i] = reports[j]

(***************************************************************************)
(* C26: the credential is cached for the lifetime of the client instance:  *)
(* while the instance holds a token, no step acquires one or replaces it,  *)
(* and every request carries it; an acquisition is made only by a call     *)
(* that finds no token; poll_execution_result starts polling only with a   *)
(* token and otherwise raises StackspotApiError with no request made.      *)
(***************************************************************************)
C26_CredentialCached ==
    [][/\ access_token # "none" =>
             /\ access_token' = access_token
             /\ acquisitions' = acquisitions
             /\ sent' \subseteq sent \cup {access_token}
       /\ acquisitions' # acquisitions => access_token = "none"
       /\ sent' \subseteq sent \cup {access_token'}
       /\ (pc = "idle" /\ pc' # "idle") =>
             IF access_token' = "none"
             THEN /\ pc' = "raised"
                  /\ error'.type = "StackspotApiError"
                  /\ history' = history
                  /\ sent' = sent
             ELSE pc' = "loop"
       /\ history' # history => access_token # "none"]_vars

\* an instance without SDK client took its token from the direct exchange
\* in a first fetch, then polled and fetched again with that token
C26_Witness ==
    /\ ~client
    /\ access_token = "direct_token"
    /\ acquisitions = 1
    /\ fetches = 2
    /\ history # <<>>
    /\ sent = {"direct_token"}

(***************************************************************************)
(* C27: in poll_workflow_result an attempt that met a network error or     *)
(* timeout, a 404 or another non-2xx status does not end the call: the     *)
(* call ends only by returning the result of a COMPLETED execution, by     *)
(* raising for a FAILED or CANCELLED one, or by raising TimeoutError.      *)
(***************************************************************************)
TransientAttempt(resp) == resp.exception # "none" \/ resp.status_code >= 400

C27_WorkflowPollGoesOn ==
    /\ (workflow_history # <<>> /\ TransientAttempt(Last(workflow_history)))
          => \/ wpc = "loop"
             \/ wpc = "raised" /\ workflow_error = "TimeoutError"
    /\ wpc = "raised" =>
          \/ workflow_error = "TimeoutError"
          \/ Last(workflow_history).status \in {"FAILED", "CANCELLED"}
          \/ Last(workflow_history).status = "COMPLETED"

(***************************************************************************)
(* C28: in production mode the orchestrator runs clone, collect, process,  *)
(* fetch callback, process results in that order, in development mode     *)
(* fetch callback, process results; a step runs only if every earlier one  *)
(* succeeded, each step runs at most once, after the first failing step no *)
(* later step runs, and the ExecutionResult then returned has success =    *)
(* False and error equal to the error of that step.                        *)
(***************************************************************************)
ModeSteps(mode) ==
    IF mode = "DEVELOPMENT" THEN <<"callback", "result">>
    ELSE <<"clone", "collect", "process", "callback", "result">>

StepsRun == [i \in 1..Len(executed) |-> executed[i].step]

C28_StepsInOrder ==
    /\ Len(executed) <= Len(ModeSteps(orch_mode))
    /\ StepsRun = SubSeq(ModeSteps(orch_mode), 1, Len(executed))
    /\ \A i \in 1..Len(executed) :
          ~executed[i].outcome.success => i = Len(executed)
    /\ (executed # <<>> /\ ~executed[Len(executed)].outcome.success) =>
          /\ opc = "returned"
          /\ orch_result.success = FALSE
          /\ orch_result.error = executed[Len(executed)].outcome.error
    /\ opc = "returned" =>
          \/ ~executed[Len(executed)].outcome.success
          \/ StepsRun = ModeSteps(orch_mode)

\* a production run that returned at its failing third step
C28_Witness ==
    /\ orch_mode = "PRODUCTION"
    /\ opc = "returned"
    /\ StepsRun = <<"clone", "collect", "process">>
    /\ orch_result.success = FALSE
    /\ orch_result.error = "Failed to process with StackSpot"
    /\ orch_result.payload_file = "MAIN_PAYLOAD_FILE"

(***************************************************************************)
(* C29: the ExecutionResult is consistent in every state of execute:       *)
(* success = True implies error is None and execution_id, callback_file    *)
(* and results_directory set (in production mode cloned_repo_path and      *)
(* payload_file too); a field is set only by the success of its own step   *)
(* and, once set, never cleared or changed; and execute returning with     *)
(* success = False after a step failed has error set.                      *)
(***************************************************************************)
ResultFields ==
    {"cloned_repo_path", "payload_file", "execution_id", "callback_file",
     "results_directory"}

\* the step whose success sets the field (development mode takes the
\* execution id on the success of its callback step)
OwnStep(field) ==
    CASE field = "cloned_repo_path"  -> "clone"
      [] field = "payload_file"      -> "collect"
      [] field = "execution_id"      ->
           IF orch_mode = "DEVELOPMENT" THEN "callback" ELSE "process"
      [] field = "callback_file"     -> "callback"
      [] field = "results_directory" -> "result"

SuccessComplete ==
    orch_result.success =>
       /\ orch_result.error = "none"
       /\ orch_result.execution_id # "none"
       /\ orch_result.callback_file # "none"
       /\ orch_result.results_directory # "none"
       /\ orch_mode = "PRODUCTION" =>
             /\ orch_result.cloned_repo_path # "none"
             /\ orch_result.payload_file # "none"

SetByOwnStep ==
    \A f \in ResultFields :
       orch_result[f] # "none" =>
          \E i \in 1..Len(executed) :
             /\ executed[i].step = OwnStep(f)
             /\ executed[i].outcome.success

FailureHasError ==
    (/\ opc = "returned"
     /\ ~orch_result.success
     /\ executed # <<>>
     /\ ~executed[Len(executed)].outcome.success)
       => orch_result.error # "none"

FieldsKept ==
    [][orchestrators' = orchestrators =>
          \A f \in ResultFields :
             orch_result[f] # "none" => orch_result'[f] = orch_result[f]]_vars

C29_ResultConsistent ==
    /\ [](SuccessComplete /\ SetByOwnStep /\ FailureHasError)
    /\ FieldsKept
====
